---- MODULE Spec2Model ----
(***************************************************************************)
(* Feature-engineering pipeline of Football-analytics-ml-V2.               *)
(*                                                                         *)
(* Each script of the pipeline is a batch program over in-memory tables.   *)
(* A table (pandas DataFrame) is a sequence of rows; a row is a record     *)
(* whose field idx is the pandas index label.  Numbers are exact           *)
(* rationals [n, d] in lowest terms; the missing value NaN is [0, 0].      *)
(***************************************************************************)
EXTENDS Integers, Sequences, FiniteSets, TLC

VARIABLES script, pc, input, df, merged, out, box, team_stats, roster_final,
          combined, notes, runs

\* the tables of the Match Aggregator
aggvars == <<box, team_stats, roster_final, combined>>

vars == <<script, pc, input, df, merged, out, aggvars, notes, runs>>

(***************************************************************************)
(* Numbers                                                                 *)
(***************************************************************************)
NaN == [n |-> 0, d |-> 0]

IsNaN(x) == x.d = 0

Abs(k) == IF k < 0 THEN -k ELSE k

RECURSIVE GCD(_, _)
GCD(a, b) == IF b = 0 THEN a ELSE GCD(b, a % b)

\* the rational n/d, d > 0, in lowest terms
Frac(n, d) == LET g == GCD(Abs(n), d) IN [n |-> n \div g, d |-> d \div g]

Num(k) == [n |-> k, d |-> 1]

FAdd(x, y) == IF IsNaN(x) \/ IsNaN(y) THEN NaN
              ELSE Frac(x.n * y.d + y.n * x.d, x.d * y.d)

FNeg(x) == IF IsNaN(x) THEN NaN ELSE [n |-> -(x.n), d |-> x.d]

\* float subtraction: NaN if either operand is NaN
FSub(x, y) == FAdd(x, FNeg(y))

FDiv(x, k) == IF IsNaN(x) THEN NaN ELSE Frac(x.n, x.d * k)

FLess(x, y) == x.n * y.d < y.n * x.d

RECURSIVE SumSeq(_)
SumSeq(s) == IF s = <<>> THEN Num(0) ELSE FAdd(Head(s), SumSeq(Tail(s)))

\* the non-NaN elements of a sequence of numbers, in order
Valid(s) == SelectSeq(s, LAMBDA x : ~IsNaN(x))

\* pandas Series.mean(): NaN are skipped; NaN when nothing is left
SeriesMean(s) == LET v == Valid(s) IN
                 IF v = <<>> THEN NaN ELSE FDiv(SumSeq(v), Len(v))

\* the sequence f as an explicit tuple
Tuple(f) == <<>> \o f

\* pandas Series.fillna(value)
FillNa(s, value) ==
    Tuple([k \in 1..Len(s) |-> IF IsNaN(s[k]) THEN value ELSE s[k]])

(***************************************************************************)
(* Strings that are ordered by the code                                    *)
(***************************************************************************)
\* the team names of the model, in string order
TeamNames == <<"calgary", "ubc", "uvic">>

Teams == {TeamNames[k] : k \in 1..Len(TeamNames)}

TeamRank(t) == CHOOSE k \in 1..Len(TeamNames) : TeamNames[k] = t

\* a date is kept as text; day k of a season is the zero-padded text "0k"
DateStr(k) == <<k \div 10, k % 10>>

\* str < str of two texts of digits
RECURSIVE StrLess(_, _)
StrLess(a, b) ==
    IF b = <<>> THEN FALSE
    ELSE IF a = <<>> THEN TRUE
    ELSE IF Head(a) # Head(b) THEN Head(a) < Head(b)
    ELSE StrLess(Tail(a), Tail(b))

(***************************************************************************)
(* Generic table helpers                                                   *)
(***************************************************************************)
\* the positions of table t, in order, whose row satisfies P
RECURSIVE PosWhere(_, _, _)
PosWhere(t, P(_), k) ==
    IF k > Len(t) THEN <<>>
    ELSE IF P(t[k]) THEN <<k>> \o PosWhere(t, P, k + 1)
    ELSE PosWhere(t, P, k + 1)

\* the column col of table t at the positions ps
ColAt(t, col, ps) == Tuple([k \in 1..Len(ps) |-> t[ps[k]][col]])

\* index of value v in sequence ps
IndexOf(ps, v) == CHOOSE k \in 1..Len(ps) : ps[k] = v

\* df.groupby(keys)[col].transform(f): f is applied to the column of each
\* group, rows in table order, and the results aligned back on the rows
GroupTransform(t, SameGroup(_, _), col, f(_)) ==
    Tuple([i \in 1..Len(t) |->
        LET ps == PosWhere(t, LAMBDA r : SameGroup(r, t[i]), 1)
        IN  f(ColAt(t, col, ps))[IndexOf(ps, i)]])

\* table t with column col set to the values vals
SetCol(t, col, vals) == Tuple([i \in 1..Len(t) |-> (col :> vals[i]) @@ t[i]])

(***************************************************************************)
(* Files of the pipeline: what each script reads and writes                *)
(***************************************************************************)
\* the scripts that read tables and write one
Scripts ==
    {"drop_duplicates", "clean_lineups", "build_features",
     "merge_player_features", "prematch", "prematch_full", "add_opponent",
     "train_model", "train_model_predictive", "app"}

\* the reads with the Opponent Differencer reading the Form Engine's table
Reads_Chained(s) ==
    CASE s = "drop_duplicates" -> {"match_boxscores_detailed.csv"}
      [] s = "clean_lineups" -> {"team_lineups_all.csv"}
      [] s = "build_features" ->
            {"matches_all.csv", "match_boxscores_detailed_cleaned.csv",
             "team_lineups_clean.csv"}
      [] s = "merge_player_features" ->
            {"features_train.csv", "match_boxscores_detailed_cleaned.csv"}
      [] s = "prematch" -> {"features_enriched.csv"}
      [] s = "prematch_full" -> {"features_enriched.csv"}
      [] s = "add_opponent" -> {"features_prematch_full.csv"}
      [] s = "train_model" -> {"features_opponent.csv"}
      [] s = "train_model_predictive" -> {"features_prematch_full.csv"}
      [] s = "app" ->
            {"random_forest_predictive.pkl", "random_forest_postmatch.pkl",
             "match_boxscores_detailed_cleaned.csv",
             "features_prematch_full.csv", "features_enriched.csv"}

\* pd.read_csv(path), joblib.load(path) of a script
Reads(s) ==
    CASE s = "drop_duplicates" -> {"match_boxscores_detailed.csv"}
      [] s = "clean_lineups" -> {"team_lineups_all.csv"}
      [] s = "build_features" ->
            {"matches_all.csv", "match_boxscores_detailed_cleaned.csv",
             "team_lineups_clean.csv"}
      [] s = "merge_player_features" ->
            {"features_train.csv", "match_boxscores_detailed_cleaned.csv"}
      [] s = "prematch" -> {"features_enriched.csv"}
      [] s = "prematch_full" -> {"features_enriched.csv"}
      [] s = "add_opponent" -> {"features_enriched.csv"}
      [] s = "train_model" -> {"features_opponent.csv"}
      [] s = "train_model_predictive" -> {"features_prematch_full.csv"}
      [] s = "app" ->
            {"random_forest_predictive.pkl", "random_forest_postmatch.pkl",
             "match_boxscores_detailed_cleaned.csv",
             "features_prematch_full.csv", "features_enriched.csv"}

\* to_csv(path), joblib.dump(model, path) of a script; the app writes none
Writes(s) ==
    CASE s = "drop_duplicates" -> {"match_boxscores_detailed_cleaned.csv"}
      [] s = "clean_lineups" -> {"team_lineups_clean.csv"}
      [] s = "build_features" -> {"features_train.csv"}
      [] s = "merge_player_features" -> {"features_enriched.csv"}
      [] s = "prematch" -> {"features_prematch.csv"}
      [] s = "prematch_full" -> {"features_prematch_full.csv"}
      [] s = "add_opponent" -> {"features_opponent.csv"}
      [] s = "train_model" -> {"random_forest_postmatch.pkl"}
      [] s = "train_model_predictive" -> {"random_forest_predictive.pkl"}
      [] s = "app" -> {}

\* the files the scrapers leave in data/
SourceFiles ==
    {"matches_all.csv", "match_boxscores_detailed.csv", "team_lineups_all.csv"}

\* a file written in append mode: the rows are added to those of the file
Written_Append(old, new) == old \o new

\* DataFrame.to_csv(path, index=False): the file is replaced by the table
Written(old, new) == new

\* the record of a finished run of a script
Run(s, table) ==
    [script |-> s, reads |-> Reads(s), writes |-> Writes(s), table |-> table]

(***************************************************************************)
(* Form Engine: build_prematch_features_full.py                            *)
(***************************************************************************)
stats_cols == <<"shots", "sog", "assists", "player_count", "avg_player_year">>

\* f"{col}_rolling3"
RollName(col) ==
    CASE col = "shots" -> "shots_rolling3"
      [] col = "sog" -> "sog_rolling3"
      [] col = "assists" -> "assists_rolling3"
      [] col = "player_count" -> "player_count_rolling3"
      [] col = "avg_player_year" -> "avg_player_year_rolling3"

\* f"{col}_form_diff"
DiffName(col) ==
    CASE col = "shots" -> "shots_form_diff"
      [] col = "sog" -> "sog_form_diff"
      [] col = "assists" -> "assists_form_diff"
      [] col = "player_count" -> "player_count_form_diff"
      [] col = "avg_player_year" -> "avg_player_year_form_diff"

rolling_cols == [k \in 1..Len(stats_cols) |-> RollName(stats_cols[k])]
                    \o <<"win_rate_rolling5">>

Range(s) == {s[k] : k \in 1..Len(s)}

\* window of the form averages
FormWindow == 3

\* window of the recent win rate
WinRateWindow == 5

MinPeriods == 1

\* the sort key (season, team, date) of sort_values: row a before row b
RowLess(a, b) ==
    \/ a.season < b.season
    \/ /\ a.season = b.season
       /\ \/ TeamRank(a.team) < TeamRank(b.team)
          \/ /\ a.team = b.team
             /\ StrLess(a.date, b.date)

\* r inserted into the sorted table s behind every row that is not after it
RECURSIVE InsertSorted(_, _)
InsertSorted(s, r) ==
    IF s = <<>> THEN <<r>>
    ELSE IF RowLess(r, Head(s)) THEN <<r>> \o s
    ELSE <<Head(s)>> \o InsertSorted(Tail(s), r)

\* df.sort_values(["season", "team", "date"]): a sort on several keys is
\* pandas' lexsort, which keeps rows with equal keys in their given order
RECURSIVE SortValues(_)
SortValues(t) ==
    IF t = <<>> THEN <<>>
    ELSE InsertSorted(SortValues(SubSeq(t, 1, Len(t) - 1)), t[Len(t)])

\* Series.shift(1)
Shift1(x) == IF x = <<>> THEN <<>> ELSE <<NaN>> \o SubSeq(x, 1, Len(x) - 1)

\* Series.rolling(window, min_periods).mean(): the mean of the non-NaN
\* values among the last `window` entries, NaN below min_periods of them
RollingMean(x, window, min_periods) ==
    Tuple([k \in 1..Len(x) |->
        LET lo == IF k - window + 1 < 1 THEN 1 ELSE k - window + 1
            w  == Valid(SubSeq(x, lo, k))
        IN  IF Len(w) >= min_periods THEN FDiv(SumSeq(w), Len(w)) ELSE NaN])

\* the rolling mean without the shift: the current match is in its own window
FormLambda_NoShift(x) == RollingMean(x, FormWindow, MinPeriods)

\* lambda x: x.shift(1).rolling(window=3, min_periods=1).mean()
FormLambda(x) == RollingMean(Shift1(x), FormWindow, MinPeriods)

\* lambda x: x.shift(1).rolling(window=5, min_periods=1).mean()
WinRateLambda(x) == RollingMean(Shift1(x), WinRateWindow, MinPeriods)

SameSeasonTeam(a, b) == a.season = b.season /\ a.team = b.team

\* the team fill grouped by season and team instead of team
SameTeam_PerSeason(a, b) == a.season = b.season /\ a.team = b.team

SameTeam(a, b) == a.team = b.team

\* for col in stats_cols: df[f"{col}_rolling3"] = groupby(season, team).transform
RECURSIVE RollingCols(_, _)
RollingCols(t, k) ==
    IF k > Len(stats_cols) THEN t
    ELSE RollingCols(
            SetCol(t, RollName(stats_cols[k]),
                   GroupTransform(t, SameSeasonTeam, stats_cols[k], FormLambda)),
            k + 1)

to_numeric_result(r) ==
    IF r = "win" THEN Num(1)
    ELSE IF r = "loss" THEN Num(0)
    ELSE Frac(1, 2)

\* df["numeric_result"] and df["win_rate_rolling5"]
WinRateCols(t) ==
    LET t1 == SetCol(t, "numeric_result",
                     [i \in 1..Len(t) |-> to_numeric_result(t[i].result)])
    IN  SetCol(t1, "win_rate_rolling5",
               GroupTransform(t1, SameSeasonTeam, "numeric_result", WinRateLambda))

\* lambda x: x.fillna(x.mean())
FillMeanLambda(x) == FillNa(x, SeriesMean(x))

\* for col in rolling_cols: df[col] = df.groupby("team")[col].transform(...)
RECURSIVE FillTeamCols(_, _)
FillTeamCols(t, k) ==
    IF k > Len(rolling_cols) THEN t
    ELSE FillTeamCols(
            SetCol(t, rolling_cols[k],
                   GroupTransform(t, SameTeam, rolling_cols[k], FillMeanLambda)),
            k + 1)

\* the numeric columns of the frame at the global fill
numeric_cols == stats_cols \o <<"numeric_result">> \o rolling_cols

\* df.fillna(df.mean(numeric_only=True)): every numeric column of the frame
RECURSIVE FillGlobalCols(_, _)
FillGlobalCols(t, k) ==
    IF k > Len(numeric_cols) THEN t
    ELSE FillGlobalCols(
            SetCol(t, numeric_cols[k],
                   FillNa(ColAt(t, numeric_cols[k], [i \in 1..Len(t) |-> i]),
                          SeriesMean(ColAt(t, numeric_cols[k],
                                           [i \in 1..Len(t) |-> i])))),
            k + 1)

\* df.merge(df, on="match_id", suffixes=("", "_opp")): every pair of a left
\* and a right row with the same match_id, left order first
RECURSIVE MergePairs(_, _, _)
MergePairs(l, r, i) ==
    IF i > Len(l) THEN <<>>
    ELSE LET ps == PosWhere(r, LAMBDA x : x.match_id = l[i].match_id, 1)
         IN  Tuple([k \in 1..Len(ps) |-> [own |-> l[i], opp |-> r[ps[k]]]])
                \o MergePairs(l, r, i + 1)

\* merged[merged["team"] != merged["team_opp"]]
NotSelfPair(m) == m.own.team # m.opp.team

OpponentPairs(t) == SelectSeq(MergePairs(t, t, 1), NotSelfPair)

\* the *_form_diff columns and win_rate_diff of one merged row
FormDiffs(m) ==
    [c \in {DiffName(stats_cols[k]) : k \in 1..Len(stats_cols)}
             \cup {"win_rate_diff"} |->
        IF c = "win_rate_diff"
        THEN FSub(m.own["win_rate_rolling5"], m.opp["win_rate_rolling5"])
        ELSE LET col == CHOOSE x \in Range(stats_cols) : DiffName(x) = c
             IN  FSub(m.own[RollName(col)], m.opp[RollName(col)])]

WithFormDiffs(ms) ==
    Tuple([i \in 1..Len(ms) |-> [own |-> ms[i].own, opp |-> ms[i].opp,
                                 diff |-> FormDiffs(ms[i])]])

\* final = merged[keep_cols + final_cols]
final_keep == {"idx", "match_id", "season", "team", "date", "result",
               "win_rate_rolling5", "player_count"} \cup
              {RollName(stats_cols[k]) : k \in 1..Len(stats_cols)}

FinalRow(m) == [c \in final_keep |-> m.own[c]] @@ m.diff

FinalTable(ms) == Tuple([i \in 1..Len(ms) |-> FinalRow(ms[i])])

(***************************************************************************)
(* Input tables of the Form Engine (data/features_enriched.csv)            *)
(***************************************************************************)
Seasons == {2023, 2024}

\* a missing result cell
NoResult == "nan"

\* the statistics of a team-match row
Profiles == <<
    [shots |-> Num(10), sog |-> Num(4), assists |-> Num(1),
     player_count |-> Num(11), avg_player_year |-> Num(2), result |-> "win"],
    [shots |-> Num(14), sog |-> Num(6), assists |-> Num(3),
     player_count |-> Num(12), avg_player_year |-> NaN, result |-> "loss"],
    [shots |-> Num(8), sog |-> Num(3), assists |-> Num(0),
     player_count |-> Num(14), avg_player_year |-> Num(3), result |-> "draw"],
    [shots |-> Num(9), sog |-> Num(5), assists |-> Num(2),
     player_count |-> Num(13), avg_player_year |-> Num(1), result |-> NoResult] >>

\* make_match_id: season, date and the two teams; the model has one fixture
\* per season and day, between the two teams
MatchId(season, day) == <<season, DateStr(day)>>

MkRow(i, season, team, day, p) ==
    [idx |-> i, match_id |-> MatchId(season, day), season |-> season,
     team |-> team, date |-> DateStr(day)] @@ Profiles[p]

\* rows of a table of one season
MaxRows == 4

\* rows of a table of several seasons
MaxSeasonRows == 3

\* matches of one team in one season
MaxRun == 6

Days == {1, 2}

WideProfiles == {2, 4}

RunProfiles == {1, 2, 3}

\* a choice is the season, team, day and statistics of a row
\* the two teams of the fixtures
FixtureTeams == {"calgary", "ubc"}

WideChoices == Seasons \X FixtureTeams \X Days \X WideProfiles

OneSeasonChoices == {c \in WideChoices : c[1] = 2023}

\* sort key of a choice: c before e in (season, team, day)
ChoiceLess(c, e) ==
    \/ c[1] < e[1]
    \/ c[1] = e[1] /\ TeamRank(c[2]) < TeamRank(e[2])
    \/ c[1] = e[1] /\ c[2] = e[2] /\ c[3] < e[3]

\* the lists of n choices of C in which no choice is before its successor
RECURSIVE LatestFirst(_, _)
LatestFirst(C, n) ==
    IF n = 0 THEN {<<>>}
    ELSE LET rest == LatestFirst(C, n - 1) IN
         UNION {{<<c>> \o e : e \in {x \in rest :
                                        x = <<>> \/ ~ChoiceLess(c, Head(x))}} :
                c \in C}

\* the tables of 1..max rows drawn from the choices C, listed latest first;
\* rows with equal keys come in either order.  (The sort is stable, so the
\* sorted table depends on the given order of the rows only through the
\* order of rows with equal keys.)
TablesOf(C, max) ==
    UNION {{[k \in 1..n |-> MkRow(k, c[k][1], c[k][2], c[k][3], c[k][4])] :
               c \in LatestFirst(C, n)} : n \in 1..max}

WideTables ==
    TablesOf(WideChoices, MaxSeasonRows) \cup TablesOf(OneSeasonChoices, MaxRows)

\* one team's season of n matches on days n, n-1, ..., 1, latest row first
RunTables ==
    UNION {{[k \in 1..n |-> MkRow(k, 2023, "ubc", n + 1 - k, c[k])] :
               c \in [1..n -> RunProfiles]} : n \in 1..MaxRun}

\* two teams over two seasons: calgary opens 2023 and plays twice in 2024,
\* ubc plays twice in 2023; latest row first
CrossSeasonKeys == <<
    <<2024, "calgary", 2>>, <<2024, "calgary", 1>>,
    <<2023, "ubc", 2>>, <<2023, "ubc", 1>>, <<2023, "calgary", 1>> >>

CrossSeasonTables ==
    {[k \in 1..Len(CrossSeasonKeys) |->
         MkRow(k, CrossSeasonKeys[k][1], CrossSeasonKeys[k][2],
               CrossSeasonKeys[k][3], c[k])] :
        c \in [1..Len(CrossSeasonKeys) -> RunProfiles]}

FormInputs == WideTables \cup RunTables \cup CrossSeasonTables

(***************************************************************************)
(* build_prematch_features_full.py, step by step                           *)
(***************************************************************************)
InitForm ==
    /\ script = "prematch_full"
    /\ pc = "load"
    /\ input \in FormInputs
    /\ box = <<>>
    /\ team_stats = <<>>
    /\ roster_final = <<>>
    /\ combined = <<>>
    /\ notes = <<>>
    /\ df = <<>>
    /\ merged = <<>>
    /\ out = <<>>
    /\ runs = <<>>

\* a date of one month written without leading zero, as the site gives it:
\* day 9 is the text "9", day 10 the text "10"
PlainDate(k) == IF k < 10 THEN <<k>> ELSE <<k \div 10, k % 10>>

\* the matches of ubc in 2023 on days 9 and 10, dates without leading zero,
\* in any order of the file
PlainDateTables ==
    UNION {{[k \in 1..n |->
                [date |-> PlainDate(c[k][1])]
                @@ MkRow(k, 2023, "ubc", c[k][1], c[k][2])] :
               c \in [1..n -> {9, 10} \X WideProfiles]} :
           n \in 1..MaxSeasonRows}

\* the run on a table whose dates are written without leading zero
InitFormDates ==
    /\ script = "prematch_full"
    /\ pc = "load"
    /\ input \in PlainDateTables
    /\ box = <<>>
    /\ team_stats = <<>>
    /\ roster_final = <<>>
    /\ combined = <<>>
    /\ notes = <<>>
    /\ df = <<>>
    /\ merged = <<>>
    /\ out = <<>>
    /\ runs = <<>>

\* 1. read_csv and sort_values
SortRows ==
    /\ script = "prematch_full" /\ pc = "load"
    /\ df' = SortValues(input)
    /\ pc' = "sorted"
    /\ UNCHANGED <<runs, notes, aggvars, script, input, merged, out>>

\* 2. rolling averages
Rolling3 ==
    /\ script = "prematch_full" /\ pc = "sorted"
    /\ df' = RollingCols(df, 1)
    /\ pc' = "rolled"
    /\ UNCHANGED <<runs, notes, aggvars, script, input, merged, out>>

\* 3. recent win rate
WinRate ==
    /\ script = "prematch_full" /\ pc = "rolled"
    /\ df' = WinRateCols(df)
    /\ pc' = "rated"
    /\ UNCHANGED <<runs, notes, aggvars, script, input, merged, out>>

\* 4. fill NaNs with team averages
FillTeamMean ==
    /\ script = "prematch_full" /\ pc = "rated"
    /\ df' = FillTeamCols(df, 1)
    /\ pc' = "team_filled"
    /\ UNCHANGED <<runs, notes, aggvars, script, input, merged, out>>

\* 4. df.fillna(df.mean(numeric_only=True), inplace=True)
FillGlobalMean ==
    /\ script = "prematch_full" /\ pc = "team_filled"
    /\ df' = FillGlobalCols(df, 1)
    /\ pc' = "filled"
    /\ UNCHANGED <<runs, notes, aggvars, script, input, merged, out>>

\* 5. opponent form differences
OpponentForm ==
    /\ script = "prematch_full" /\ pc = "filled"
    /\ merged' = WithFormDiffs(OpponentPairs(df))
    /\ pc' = "paired"
    /\ UNCHANGED <<runs, notes, aggvars, script, input, df, out>>

\* 6./7. select the final columns and save
SaveForm ==
    /\ script = "prematch_full" /\ pc = "paired"
    /\ out' = Written(out, FinalTable(merged))
    /\ runs' = Append(runs, Run(script, out'))
    /\ pc' = "done"
    /\ UNCHANGED <<notes, aggvars, script, input, df, merged>>

NextForm ==
    \/ SortRows
    \/ Rolling3
    \/ WinRate
    \/ FillTeamMean
    \/ FillGlobalMean
    \/ OpponentForm
    \/ SaveForm

SpecForm == InitForm /\ [][NextForm]_vars

SpecFormDates == InitFormDates /\ [][NextForm]_vars

(***************************************************************************)
(* Opponent Differencer: add_opponent_features.py                          *)
(***************************************************************************)
\* the diff columns and the columns they are taken from
opp_diffs == <<
    <<"goal_diff", "goals">>, <<"shot_diff", "shots">>,
    <<"sog_diff", "sog">>, <<"assist_diff", "assists">>,
    <<"G_mean_diff", "G_mean">>, <<"SH_mean_diff", "SH_mean">>,
    <<"SOG_mean_diff", "SOG_mean">>, <<"A_mean_diff", "A_mean">> >>

\* the diffs with own and opponent exchanged
OppDiffs_Swapped(m) ==
    [c \in {opp_diffs[k][1] : k \in 1..Len(opp_diffs)} |->
        LET k == CHOOSE x \in 1..Len(opp_diffs) : opp_diffs[x][1] = c
        IN  FSub(m.opp[opp_diffs[k][2]], m.own[opp_diffs[k][2]])]

\* merged["goal_diff"] = merged["goals"] - merged["goals_opp"], and so on
OppDiffs(m) ==
    [c \in {opp_diffs[k][1] : k \in 1..Len(opp_diffs)} |->
        LET k == CHOOSE x \in 1..Len(opp_diffs) : opp_diffs[x][1] = c
        IN  FSub(m.own[opp_diffs[k][2]], m.opp[opp_diffs[k][2]])]

WithOppDiffs(ms) ==
    Tuple([i \in 1..Len(ms) |-> [own |-> ms[i].own, opp |-> ms[i].opp,
                                 diff |-> OppDiffs(ms[i])]])

\* final = merged[base_cols + keep_cols]
opp_keep == {"idx", "match_id", "team", "season", "date",
             "goals", "shots", "sog", "assists",
             "G_mean", "SH_mean", "SOG_mean", "A_mean"}

OppFinalRow(m) == [c \in opp_keep |-> m.own[c]] @@ m.diff

OppFinalTable(ms) == Tuple([i \in 1..Len(ms) |-> OppFinalRow(ms[i])])

\* the statistics of a row of features_enriched.csv; the player means are
\* missing where the player merge found no player row
OppProfiles == <<
    [goals |-> Num(2), shots |-> Num(12), sog |-> Num(5), assists |-> Num(1),
     G_mean |-> Frac(2, 11), SH_mean |-> Frac(12, 11),
     SOG_mean |-> Frac(5, 11), A_mean |-> Frac(1, 11)],
    [goals |-> Num(1), shots |-> Num(9), sog |-> Num(4), assists |-> Num(0),
     G_mean |-> NaN, SH_mean |-> NaN, SOG_mean |-> NaN, A_mean |-> NaN] >>

MkOppRow(i, day, team, p) ==
    [idx |-> i, match_id |-> MatchId(2023, day), season |-> 2023,
     team |-> team, date |-> DateStr(day)] @@ OppProfiles[p]

\* rows of the table read by add_opponent_features.py
MaxOppRows == 3

OppChoices == Days \X Teams \X (1..Len(OppProfiles))

OppInputs ==
    UNION {{[k \in 1..n |-> MkOppRow(k, c[k][1], c[k][2], c[k][3])] :
               c \in [1..n -> OppChoices]} : n \in 1..MaxOppRows}

InitOpp ==
    /\ script = "add_opponent"
    /\ pc = "load"
    /\ input \in OppInputs
    /\ box = <<>>
    /\ team_stats = <<>>
    /\ roster_final = <<>>
    /\ combined = <<>>
    /\ notes = <<>>
    /\ df = <<>>
    /\ merged = <<>>
    /\ out = <<>>
    /\ runs = <<>>

\* 1. self-merge on match_id, self-pairs removed
OppMerge ==
    /\ script = "add_opponent" /\ pc = "load"
    /\ df' = input
    /\ merged' = OpponentPairs(input)
    /\ pc' = "paired"
    /\ UNCHANGED <<runs, notes, aggvars, script, input, out>>

\* 2. relative features
OppRelative ==
    /\ script = "add_opponent" /\ pc = "paired"
    /\ merged' = WithOppDiffs(merged)
    /\ pc' = "diffed"
    /\ UNCHANGED <<runs, notes, aggvars, script, input, df, out>>

\* 3./4. select the columns and save
OppSave ==
    /\ script = "add_opponent" /\ pc = "diffed"
    /\ out' = Written(out, OppFinalTable(merged))
    /\ runs' = Append(runs, Run(script, out'))
    /\ pc' = "done"
    /\ UNCHANGED <<notes, aggvars, script, input, df, merged>>

NextOpp == OppMerge \/ OppRelative \/ OppSave

\* either script that pairs opponents
InitPair == InitForm \/ InitOpp

NextPair == NextForm \/ NextOpp

SpecPair == InitPair /\ [][NextPair]_vars

(***************************************************************************)
(* Match Aggregator: build_features.py                                     *)
(***************************************************************************)
\* a cell of the box score that is text, not a number
Dash == [text |-> "-"]

\* pd.to_numeric(errors="coerce"): text becomes NaN
ToNumeric(cell) == IF "text" \in DOMAIN cell THEN NaN ELSE cell

box_stats == <<"shots", "sog", "goals", "assists">>

\* box.columns of a table with rows
BoxColumns(t) == DOMAIN t[1]

\* step 4: the statistics of the box score as numbers, NaN as 0; a column
\* that the table does not have is created with 0 in every row
RECURSIVE EnsureNumericCols(_, _)
EnsureNumericCols(t, k) ==
    IF k > Len(box_stats) THEN t
    ELSE LET col == box_stats[k]
             raw == Tuple([i \in 1..Len(t) |-> ToNumeric(t[i][col])])
             zero == Tuple([i \in 1..Len(t) |-> Num(0)])
         IN  EnsureNumericCols(
                 SetCol(t, col, IF col \in BoxColumns(t)
                                THEN FillNa(raw, Num(0)) ELSE zero), k + 1)

\* the group key of groupby(["match_id", "team"])
AggKey(r) == <<r.match_id, r.team>>

\* order of two match ids (season, date)
MatchIdLess(a, b) == a[1] < b[1] \/ (a[1] = b[1] /\ StrLess(a[2], b[2]))

KeyLess(a, b) ==
    \/ MatchIdLess(a[1], b[1])
    \/ a[1] = b[1] /\ TeamRank(a[2]) < TeamRank(b[2])

\* the keys of a set in sorted order (groupby sorts its groups)
RECURSIVE SortedKeys(_)
SortedKeys(S) ==
    IF S = {} THEN <<>>
    ELSE LET m == CHOOSE x \in S : \A y \in S \ {x} : KeyLess(x, y)
         IN  <<m>> \o SortedKeys(S \ {m})

GroupKeys(t) == SortedKeys({AggKey(t[i]) : i \in 1..Len(t)})

GroupRows(t, key) == PosWhere(t, LAMBDA r : AggKey(r) = key, 1)

\* the aggregation with the shots and sog columns taken for one another
TeamStatsRow_Misaligned(t, key) ==
    LET ps == GroupRows(t, key) IN
    [match_id |-> key[1], team |-> key[2],
     goals |-> SumSeq(Valid(ColAt(t, "goals", ps))),
     shots |-> SumSeq(Valid(ColAt(t, "sog", ps))),
     sog |-> SumSeq(Valid(ColAt(t, "shots", ps))),
     assists |-> SumSeq(Valid(ColAt(t, "assists", ps))),
     player_count |-> Num(Len(ps))]

\* step 5: sums of the statistics and the count of player rows of a group
TeamStatsRow(t, key) ==
    LET ps == GroupRows(t, key) IN
    [match_id |-> key[1], team |-> key[2],
     goals |-> SumSeq(Valid(ColAt(t, "goals", ps))),
     shots |-> SumSeq(Valid(ColAt(t, "shots", ps))),
     sog |-> SumSeq(Valid(ColAt(t, "sog", ps))),
     assists |-> SumSeq(Valid(ColAt(t, "assists", ps))),
     player_count |-> Num(Len(ps))]

TeamStatsTable(t) ==
    LET ks == GroupKeys(t) IN
    Tuple([k \in 1..Len(ks) |-> TeamStatsRow(t, ks[k])])

\* l.merge(r, how): each row of l joined with the rows of r that match it,
\* in the order of r; with how = "left" a row without match is kept with
\* the columns of r missing
RECURSIVE Merge(_, _, _, _, _, _)
Merge(l, r, On(_, _), how, missing, i) ==
    IF i > Len(l) THEN <<>>
    ELSE LET ps == PosWhere(r, LAMBDA x : On(l[i], x), 1)
             rows == IF ps # <<>>
                     THEN Tuple([k \in 1..Len(ps) |-> l[i] @@ r[ps[k]]])
                     ELSE IF how = "left" THEN <<l[i] @@ missing>>
                     ELSE <<>>
         IN  rows \o Merge(l, r, On, how, missing, i + 1)

\* a missing position_group
NoPosition == "NaN"

OnPlayerTeam(a, b) == a.player = b.player /\ a.team = b.team

\* step 6: box.merge(lineups, on=["player", "team"], how="left")
BoxLineup(b, l) ==
    Merge(b, l, OnPlayerTeam, "left",
          [position_group |-> NoPosition, year_num |-> NaN], 1)

\* the position groups of the players of the model
position_groups == <<"def", "for">>

\* value_counts(normalize=True) of the group for position g, 0 when absent
Share(t, ps, g) ==
    LET known == SelectSeq(ColAt(t, "position_group", ps),
                           LAMBDA x : x # NoPosition)
    IN  IF known = <<>> THEN Num(0)
        ELSE Frac(Len(SelectSeq(known, LAMBDA x : x = g)), Len(known))

RosterRow(t, key) ==
    LET ps == GroupRows(t, key) IN
    [match_id |-> key[1], team |-> key[2],
     avg_player_year |-> SeriesMean(ColAt(t, "year_num", ps))]
    @@ [g \in Range(position_groups) |-> Share(t, ps, g)]

RosterFinal(t) ==
    LET ks == GroupKeys(t) IN
    Tuple([k \in 1..Len(ks) |-> RosterRow(t, ks[k])])

OnMatchTeam(a, b) == a.match_id = b.match_id /\ a.team = b.team

OnHomeTeam(a, b) == a.match_id = b.match_id /\ a.team = b.home_team

OnAwayTeam(a, b) == a.match_id = b.match_id /\ a.team = b.away_team

\* step 7: team_stats.merge(roster_final, how="left")
Features(ts, rf) ==
    Merge(ts, rf, OnMatchTeam, "left",
          [avg_player_year |-> NaN]
          @@ [g \in Range(position_groups) |-> NaN], 1)

WithIsHome(t, v) == Tuple([i \in 1..Len(t) |-> [is_home |-> v] @@ t[i]])

\* the fixture columns of a row without fixture
NoFixture ==
    [season |-> 0, date |-> <<>>, home_team |-> "nan", away_team |-> "nan",
     home_goals |-> NaN, away_goals |-> NaN]

\* the combination with left merges, which keep rows without fixture
Combined_LeftMerge(features, matches) ==
    WithIsHome(Merge(features, matches, OnHomeTeam, "left", NoFixture, 1), 1)
    \o WithIsHome(Merge(features, matches, OnAwayTeam, "left", NoFixture, 1), 0)

\* step 7: the home rows, then the away rows
Combined(features, matches) ==
    WithIsHome(Merge(features, matches, OnHomeTeam, "inner", <<>>, 1), 1)
    \o WithIsHome(Merge(features, matches, OnAwayTeam, "inner", <<>>, 1), 0)

\* x > y of two floats: False when either is NaN
Gt(x, y) == ~IsNaN(x) /\ ~IsNaN(y) /\ FLess(y, x)

\* step 8
result(row) ==
    IF {"home_goals", "away_goals"} \subseteq DOMAIN row
    THEN IF row.is_home = 1
         THEN IF Gt(row.home_goals, row.away_goals) THEN "win"
              ELSE IF Gt(row.away_goals, row.home_goals) THEN "loss"
              ELSE "draw"
         ELSE IF Gt(row.away_goals, row.home_goals) THEN "win"
              ELSE IF Gt(row.home_goals, row.away_goals) THEN "loss"
              ELSE "draw"
    ELSE NoResult

WithResult(t) == Tuple([i \in 1..Len(t) |-> [result |-> result(t[i])] @@ t[i]])

(***************************************************************************)
(* Input tables of the Match Aggregator; the text columns are lower case   *)
(* and stripped, as step 3 leaves them                                     *)
(***************************************************************************)
\* home_goals, away_goals of a fixture; None is written for a missing score
Scores == {<<Num(2), Num(1)>>, <<Num(1), Num(2)>>, <<Num(1), Num(1)>>,
           <<NaN, NaN>>}

Fixture(day, home, away, score) ==
    [match_id |-> MatchId(2023, day), season |-> 2023, date |-> DateStr(day),
     home_team |-> home, away_team |-> away,
     home_goals |-> score[1], away_goals |-> score[2]]

\* data/matches_all.csv: calgary v ubc on day 1, and ubc v uvic on day 2
MatchTables ==
    {<<Fixture(1, "calgary", "ubc", s)>> : s \in Scores}
    \cup {<<Fixture(1, "calgary", "ubc", s), Fixture(2, "ubc", "uvic", e)>> :
             s \in Scores, e \in {<<Num(0), Num(3)>>, <<NaN, NaN>>}}

\* the box score lines of two players
PlayerLines == <<
    [player |-> "a. smith", goals |-> Num(1), shots |-> Num(3),
     sog |-> Num(2), assists |-> Num(0)],
    [player |-> "b. jones", goals |-> Dash, shots |-> Num(2),
     sog |-> Num(1), assists |-> NaN] >>

\* data/team_lineups_clean.csv: one row per (season, team, player)
Lineups == <<
    [season |-> 2023, player |-> "a. smith", team |-> "calgary",
     position_group |-> "for", year_num |-> Num(2)],
    [season |-> 2023, player |-> "b. jones", team |-> "calgary",
     position_group |-> "def", year_num |-> Num(3)],
    [season |-> 2023, player |-> "a. smith", team |-> "ubc",
     position_group |-> "def", year_num |-> Num(1)] >>

\* the same roster with the record of a second season of calgary's a. smith
LineupsTwoSeasons ==
    Lineups \o
    <<[season |-> 2024, player |-> "a. smith", team |-> "calgary",
       position_group |-> "for", year_num |-> Num(3)]>>

LineupTables == {Lineups, LineupsTwoSeasons}

\* rows of the box score
MaxBox == 3

\* a line of the box score: the day of the match, the team, the player
BoxChoices == Days \X Teams \X (1..Len(PlayerLines))

BoxChoiceLess(c, e) ==
    \/ c[1] < e[1]
    \/ c[1] = e[1] /\ TeamRank(c[2]) < TeamRank(e[2])
    \/ c[1] = e[1] /\ c[2] = e[2] /\ c[3] < e[3]

RECURSIVE BoxRows(_)
BoxRows(S) ==
    IF S = {} THEN <<>>
    ELSE LET c == CHOOSE x \in S : \A y \in S \ {x} : BoxChoiceLess(x, y)
         IN  <<[match_id |-> MatchId(2023, c[1]), team |-> c[2]]
               @@ PlayerLines[c[3]]>> \o BoxRows(S \ {c})

\* data/match_boxscores_detailed_cleaned.csv: 1..MaxBox different lines
BoxTables ==
    {BoxRows(S) : S \in {T \in SUBSET BoxChoices :
                            Cardinality(T) \in 1..MaxBox}}

\* row r without the column col
Without(r, col) == [f \in DOMAIN r \ {col} |-> r[f]]

\* box scores of one line in which a statistic column is absent
CorruptBoxTables ==
    {<<Without(BoxRows({c})[1], col)>> :
        c \in BoxChoices, col \in Range(box_stats)}

(***************************************************************************)
(* build_features.py, step by step                                         *)
(***************************************************************************)
InitAgg ==
    /\ script = "build_features"
    /\ pc = "load"
    /\ input \in [matches : MatchTables, box : BoxTables,
                 lineups : LineupTables]
    /\ box = <<>>
    /\ team_stats = <<>>
    /\ roster_final = <<>>
    /\ combined = <<>>
    /\ notes = <<>>
    /\ df = <<>>
    /\ merged = <<>>
    /\ out = <<>>
    /\ runs = <<>>

\* the run on a box score that lacks a statistic column
InitAggCorrupt ==
    /\ script = "build_features"
    /\ pc = "load"
    /\ input \in [matches : MatchTables, box : CorruptBoxTables,
                 lineups : {Lineups}]
    /\ box = <<>>
    /\ team_stats = <<>>
    /\ roster_final = <<>>
    /\ combined = <<>>
    /\ notes = <<>>
    /\ df = <<>>
    /\ merged = <<>>
    /\ out = <<>>
    /\ runs = <<>>

\* step 4
EnsureNumeric ==
    /\ script = "build_features" /\ pc = "load"
    /\ box' = EnsureNumericCols(input.box, 1)
    /\ pc' = "numeric"
    /\ UNCHANGED <<runs, notes, script, input, df, merged, out, team_stats, roster_final,
                   combined>>

\* step 5
AggregateTeamStats ==
    /\ script = "build_features" /\ pc = "numeric"
    /\ team_stats' = TeamStatsTable(box)
    /\ pc' = "stats"
    /\ UNCHANGED <<runs, notes, script, input, df, merged, out, box, roster_final,
                   combined>>

\* step 6
MergeLineups ==
    /\ script = "build_features" /\ pc = "stats"
    /\ roster_final' = RosterFinal(BoxLineup(box, input.lineups))
    /\ pc' = "roster"
    /\ UNCHANGED <<runs, notes, script, input, df, merged, out, box, team_stats, combined>>

\* step 7
CombineMatches ==
    /\ script = "build_features" /\ pc = "roster"
    /\ combined' = Combined(Features(team_stats, roster_final), input.matches)
    /\ pc' = "combined"
    /\ UNCHANGED <<runs, notes, script, input, df, merged, out, box, team_stats,
                   roster_final>>

\* step 8
ComputeResult ==
    /\ script = "build_features" /\ pc = "combined"
    /\ combined' = WithResult(combined)
    /\ pc' = "labelled"
    /\ UNCHANGED <<runs, notes, script, input, df, merged, out, box, team_stats,
                   roster_final>>

\* step 9
SaveFeatures ==
    /\ script = "build_features" /\ pc = "labelled"
    /\ out' = Written(out, combined)
    /\ runs' = Append(runs, Run(script, out'))
    /\ pc' = "done"
    /\ UNCHANGED <<notes, script, input, df, merged, box, team_stats, roster_final,
                   combined>>

NextAgg ==
    \/ EnsureNumeric
    \/ AggregateTeamStats
    \/ MergeLineups
    \/ CombineMatches
    \/ ComputeResult
    \/ SaveFeatures

SpecAgg == InitAgg /\ [][NextAgg]_vars

SpecAggCorrupt == InitAggCorrupt /\ [][NextAgg]_vars

(***************************************************************************)
(* Schema Projector: app.py                                                *)
(***************************************************************************)
\* the columns a feature row or a model of the app may have, in file order
ColumnPool == <<"shots_rolling3", "win_rate_rolling5", "for", "G_mean">>

\* the columns of the predictive row the app builds
predictive_cols == {"shots_rolling3", "win_rate_rolling5", "for"}

\* def val(s): return float(s) if pd.notna(s) else 0.0
val(s) == IF IsNaN(s) THEN Num(0) ELSE s

\* row.columns
Columns(row) == SelectSeq(ColumnPool, LAMBDA c : c \in DOMAIN row)

\* list(getattr(model, "feature_names_in_", row.columns))
FeatOrder(model, row) ==
    IF model.has_names THEN model.feature_names_in_ ELSE Columns(row)

\* for f in feat_order: if f not in row.columns: row[f] = 0.0
RECURSIVE ZeroFill(_, _, _)
ZeroFill(row, feat_order, k) ==
    IF k > Len(feat_order) THEN row
    ELSE ZeroFill(IF feat_order[k] \in DOMAIN row THEN row
                  ELSE row @@ (feat_order[k] :> Num(0)),
                  feat_order, k + 1)

\* row[feat_order]: the columns of feat_order and their values, in order
Select(row, feat_order) ==
    Tuple([k \in 1..Len(feat_order) |->
              [col |-> feat_order[k], value |-> row[feat_order[k]]]])

\* a projection that selects the columns without filling the absent ones:
\* the selection raises KeyError and no vector is made
Projected_NoFill(row, feat_order) ==
    IF Range(feat_order) \subseteq DOMAIN row THEN Select(row, feat_order)
    ELSE <<>>

\* the zero fill and the selection of the columns
Projected(row, feat_order) ==
    Select(ZeroFill(row, feat_order, 1), feat_order)

\* the means of the simulated and of the original lineup
new_means == [G_mean |-> Frac(3, 2)]

orig_means == [G |-> Num(1), SH |-> Num(3), SOG |-> Num(2), A |-> Num(0)]

\* enriched_row[fcol] = float(new_means[bcol])
WithNewMeans(row) == new_means @@ row

\* st.warning(text)
Warning(text) == [level |-> "warning", text |-> text]

(***************************************************************************)
(* Inputs of the app: a model and the row of the selected team             *)
(***************************************************************************)
\* features of a model
MaxFeatures == 3

RECURSIVE FeatureLists(_)
FeatureLists(n) ==
    IF n = 0 THEN {<<>>}
    ELSE {Append(l, c) : l \in FeatureLists(n - 1),
                         c \in Range(ColumnPool)}

\* feature_cols of a training script: the columns of X, no name twice
TrainingColumns ==
    {x \in UNION {FeatureLists(n) : n \in 1..MaxFeatures} :
        \A i \in 1..Len(x) : \A j \in 1..Len(x) : x[i] = x[j] => i = j}

\* a model fitted on X = df[feature_cols]; the estimator records the names
\* in feature_names_in_, or (scikit-learn before 1.0) records none
AppModels ==
    {[has_names |-> h, feature_cols |-> l,
      feature_names_in_ |-> IF h THEN l ELSE <<>>] :
        h \in BOOLEAN, l \in TrainingColumns}

\* the latest form rows of the home team (data/features_prematch_full.csv)
FormRows == [predictive_cols -> {Num(3), Frac(1, 2), NaN}]

\* the rows of a match and team in data/features_enriched.csv, with any of
\* the columns
EnrichedRows ==
    UNION {[S -> {Num(3), Frac(1, 2)}] :
              S \in SUBSET Range(ColumnPool) \ {{}}}

AppInputs(s) ==
    IF s = "app_predictive"
    THEN [model : AppModels, has_form : {TRUE}, row : FormRows]
         \cup [model : AppModels, has_form : {FALSE}, row : {<<>>}]
    ELSE [model : AppModels, has_form : {TRUE}, row : EnrichedRows]

(***************************************************************************)
(* app.py: the two tabs, step by step                                      *)
(***************************************************************************)
InitApp ==
    /\ script \in {"app_predictive", "app_analytic"}
    /\ pc = "load"
    /\ input \in AppInputs(script)
    /\ notes = <<>>
    /\ box = <<>>
    /\ team_stats = <<>>
    /\ roster_final = <<>>
    /\ combined = <<>>
    /\ df = <<>>
    /\ merged = <<>>
    /\ out = <<>>
    /\ runs = <<>>

\* tab 1: no latest form row for one of the teams
WarnNoForm ==
    /\ script = "app_predictive" /\ pc = "load"
    /\ ~input.has_form
    /\ notes' = Append(notes,
                       Warning("Not enough form data for one or both teams."))
    /\ pc' = "done"
    /\ UNCHANGED <<runs, aggvars, script, input, df, merged, out>>

\* tab 1: build the predictive feature row
BuildRow ==
    /\ script = "app_predictive" /\ pc = "load"
    /\ input.has_form
    /\ df' = [c \in predictive_cols |-> val(input.row[c])]
    /\ pc' = "built"
    /\ UNCHANGED <<runs, notes, aggvars, script, input, merged, out>>

\* tab 1: ensure correct column order
ProjectPredictive ==
    /\ script = "app_predictive" /\ pc = "built"
    /\ merged' = Projected(df, FeatOrder(input.model, df))
    /\ pc' = "projected"
    /\ UNCHANGED <<runs, notes, aggvars, script, input, df, out>>

\* tab 1: model_predictive.predict_proba(row)
PredictPredictive ==
    /\ script = "app_predictive" /\ pc = "projected"
    /\ out' = merged
    /\ pc' = "done"
    /\ UNCHANGED <<runs, notes, aggvars, script, input, df, merged>>

\* tab 2: update the per-match player mean features of the enriched row
UpdateMeans ==
    /\ script = "app_analytic" /\ pc = "load"
    /\ df' = WithNewMeans(input.row)
    /\ pc' = "built"
    /\ UNCHANGED <<runs, notes, aggvars, script, input, merged, out>>

\* tab 2: ensure expected analytic feature set; X_new and X_old
ProjectAnalytic ==
    /\ script = "app_analytic" /\ pc = "built"
    /\ LET feat_order == FeatOrder(input.model, df)
           filled == ZeroFill(df, feat_order, 1)
       IN  merged' = [X_new |-> Select(filled, feat_order),
                      X_old |-> Select(orig_means @@ filled, feat_order)]
    /\ pc' = "projected"
    /\ UNCHANGED <<runs, notes, aggvars, script, input, df, out>>

\* tab 2: model_analytic.predict_proba(X_new), predict_proba(X_old)
PredictAnalytic ==
    /\ script = "app_analytic" /\ pc = "projected"
    /\ out' = merged
    /\ pc' = "done"
    /\ UNCHANGED <<runs, notes, aggvars, script, input, df, merged>>

NextApp ==
    \/ WarnNoForm
    \/ BuildRow
    \/ ProjectPredictive
    \/ PredictPredictive
    \/ UpdateMeans
    \/ ProjectAnalytic
    \/ PredictAnalytic

SpecApp == InitApp /\ [][NextApp]_vars

(***************************************************************************)
(* Text of the lineup files: a text is the sequence of its characters      *)
(***************************************************************************)
Lowercase == <<"a", "b", "c", "d", "e", "f", "g", "h", "i", "j", "k", "l", "m", "n", "o", "p", "q", "r", "s", "t", "u", "v", "w", "x", "y", "z">>

Uppercase == <<"A", "B", "C", "D", "E", "F", "G", "H", "I", "J", "K", "L", "M", "N", "O", "P", "Q", "R", "S", "T", "U", "V", "W", "X", "Y", "Z">>

Letters == Range(Lowercase) \cup Range(Uppercase)

Whitespace == {" "}

\* a missing cell (float NaN)
Missing == <<"NaN">>

\* pd.isna(x)
IsNa(x) == x = Missing

\* str(x)
Str(x) == IF IsNa(x) THEN <<"n", "a", "n">> ELSE x

LowerChar(c) ==
    IF c \in Range(Uppercase)
    THEN Lowercase[CHOOSE k \in 1..Len(Uppercase) : Uppercase[k] = c]
    ELSE c

UpperChar(c) ==
    IF c \in Range(Lowercase)
    THEN Uppercase[CHOOSE k \in 1..Len(Lowercase) : Lowercase[k] = c]
    ELSE c

\* s.lower(), s.upper()
Lower(s) == Tuple([k \in 1..Len(s) |-> LowerChar(s[k])])

Upper(s) == Tuple([k \in 1..Len(s) |-> UpperChar(s[k])])

RECURSIVE LStrip(_)
LStrip(s) ==
    IF s # <<>> /\ Head(s) \in Whitespace THEN LStrip(Tail(s)) ELSE s

RECURSIVE RStrip(_)
RStrip(s) ==
    IF s # <<>> /\ s[Len(s)] \in Whitespace
    THEN RStrip(SubSeq(s, 1, Len(s) - 1)) ELSE s

\* s.strip()
Strip(s) == RStrip(LStrip(s))

\* s with the characters of C removed
Remove(s, C) == SelectSeq(s, LAMBDA c : c \notin C)

\* unicodedata.normalize("NFKD", s).encode("ascii", "ignore").decode():
\* an accented letter is left without its accent
AsciiFold(s) == Tuple([k \in 1..Len(s) |-> IF s[k] = "é" THEN "e" ELSE s[k]])

\* " ".join(s.split()): runs of whitespace become one blank, none at the ends
RECURSIVE JoinSplit(_)
JoinSplit(s) ==
    IF s = <<>> THEN <<>>
    ELSE IF Head(s) \in Whitespace
    THEN LET rest == LStrip(s) IN
         IF rest = <<>> THEN <<>> ELSE <<" ">> \o JoinSplit(rest)
    ELSE <<Head(s)>> \o JoinSplit(Tail(s))

\* needle in hay
Contains(hay, needle) ==
    \E i \in 0..(Len(hay) - Len(needle)) :
        SubSeq(hay, i + 1, i + Len(needle)) = needle

\* p.split("/")[0]
RECURSIVE BeforeSlash(_)
BeforeSlash(s) ==
    IF s = <<>> \/ Head(s) = "/" THEN <<>>
    ELSE <<Head(s)>> \o BeforeSlash(Tail(s))

(***************************************************************************)
(* Lineup Normaliser: clean_lineups.py                                     *)
(***************************************************************************)
normalize_text(s) == JoinSplit(LStrip(AsciiFold(Lower(Strip(Str(s))))))

mapping_text ==
    (<<"f", "r">> :> "1st")
    @@ (<<"f", "r", "o", "s", "h">> :> "1st")
    @@ (<<"f", "r", "e", "s", "h", "m", "a", "n">> :> "1st")
    @@ (<<"s", "o">> :> "2nd")
    @@ (<<"s", "o", "p", "h", "o", "m", "o", "r", "e">> :> "2nd")
    @@ (<<"j", "r">> :> "3rd")
    @@ (<<"j", "u", "n", "i", "o", "r">> :> "3rd")
    @@ (<<"s", "r">> :> "4th")
    @@ (<<"s", "e", "n", "i", "o", "r">> :> "4th")
    @@ (<<"1">> :> "1st")
    @@ (<<"1", "s", "t">> :> "1st")
    @@ (<<"f", "i", "r", "s", "t">> :> "1st")
    @@ (<<"2">> :> "2nd")
    @@ (<<"2", "n", "d">> :> "2nd")
    @@ (<<"s", "e", "c", "o", "n", "d">> :> "2nd")
    @@ (<<"3">> :> "3rd")
    @@ (<<"3", "r", "d">> :> "3rd")
    @@ (<<"t", "h", "i", "r", "d">> :> "3rd")
    @@ (<<"4">> :> "4th")
    @@ (<<"4", "t", "h">> :> "4th")
    @@ (<<"f", "o", "u", "r", "t", "h">> :> "4th")
    @@ (<<"5">> :> "5th")
    @@ (<<"5", "t", "h">> :> "5th")
    @@ (<<"f", "i", "f", "t", "h">> :> "5th")

mapping_num ==
    ("1st" :> 1) @@ ("2nd" :> 2) @@ ("3rd" :> 3) @@ ("4th" :> 4)
    @@ ("5th" :> 5) @@ ("UNK" :> 0)

\* the lookup mapping_text[y] in place of mapping_text.get(y, "UNK")
normalize_year_KeyError(y) ==
    IF IsNa(y) \/ Strip(Str(y)) = <<>> THEN <<0, "UNK">>
    ELSE LET t == Remove(Lower(Strip(Str(y))), {"."}) IN
         IF t \in DOMAIN mapping_text
         THEN <<mapping_num[mapping_text[t]], mapping_text[t]>>
         ELSE <<-1, "KeyError">>

normalize_year(y) ==
    IF IsNa(y) \/ Strip(Str(y)) = <<>> THEN <<0, "UNK">>
    ELSE LET t == Remove(Lower(Strip(Str(y))), {"."})
             year_std == IF t \in DOMAIN mapping_text THEN mapping_text[t]
                         ELSE "UNK"
         IN  <<mapping_num[year_std], year_std>>

\* the keyword lists of the four groups
gk_keys ==
    <<<<"G", "K">>,
      <<"G", "O", "A", "L">>>>

def_keys ==
    <<<<"C", "B">>,
      <<"D">>,
      <<"L", "B">>,
      <<"R", "B">>,
      <<"D", "E", "F">>,
      <<"F", "B">>,
      <<"W", "B">>,
      <<"B", "A", "C", "K">>,
      <<"C", "D">>>>

mid_keys ==
    <<<<"C", "M">>,
      <<"M">>,
      <<"C", "D", "M">>,
      <<"L", "M", "F">>,
      <<"R", "M", "F">>,
      <<"M", "F">>,
      <<"M", "I", "D">>,
      <<"C", "A", "M">>,
      <<"A", "M", "F">>>>

for_keys ==
    <<<<"S", "T">>,
      <<"F">>,
      <<"C", "F">>,
      <<"F", "W">>,
      <<"F">>,
      <<"W">>>>

\* any(x in main_pos for x in keys)
AnyIn(keys, main_pos) == \E k \in 1..Len(keys) : Contains(main_pos, keys[k])

normalize_position(p) ==
    IF IsNa(p) \/ Strip(Str(p)) = <<>> THEN <<<<"U", "N", "K">>, "UNK">>
    ELSE LET main_pos == BeforeSlash(SelectSeq(Upper(Str(p)),
                             LAMBDA c : c \in Letters \cup {"/"}))
         IN  IF AnyIn(gk_keys, main_pos) THEN <<main_pos, "GK">>
             ELSE IF AnyIn(def_keys, main_pos) THEN <<main_pos, "DEF">>
             ELSE IF AnyIn(mid_keys, main_pos) THEN <<main_pos, "MID">>
             ELSE IF AnyIn(for_keys, main_pos) THEN <<main_pos, "FOR">>
             ELSE <<main_pos, "UNK">>

\* for col in ["season", "team", "player"]: df[col].map(normalize_text)
NormalizedKeys(t) ==
    Tuple([i \in 1..Len(t) |->
        [season |-> normalize_text(t[i].season),
         team |-> normalize_text(t[i].team),
         player |-> normalize_text(t[i].player)] @@ t[i]])

WithYears(t) ==
    Tuple([i \in 1..Len(t) |->
        [year_num |-> normalize_year(t[i].year)[1],
         year_std |-> normalize_year(t[i].year)[2]] @@ t[i]])

WithPositions(t) ==
    Tuple([i \in 1..Len(t) |->
        [position_zone |-> normalize_position(t[i].position)[1],
         position_group |-> normalize_position(t[i].position)[2]] @@ t[i]])

\* pd.to_numeric(df[c], errors="coerce").fillna(0) of the numeric columns
WithNumeric(t) ==
    SetCol(t, "gp",
           FillNa(Tuple([i \in 1..Len(t) |-> ToNumeric(t[i].gp)]), Num(0)))

LineupKey(r) == <<r.season, r.team, r.player>>

\* the rows of t at the positions of S, in the order of t
RECURSIVE RowsAt(_, _, _)
RowsAt(t, S, i) ==
    IF i > Len(t) THEN <<>>
    ELSE (IF i \in S THEN <<t[i]>> ELSE <<>>) \o RowsAt(t, S, i + 1)

\* the deduplication with keep="first"
DropDuplicatesFirst(t) ==
    RowsAt(t, {i \in 1..Len(t) :
                  \A j \in 1..(i - 1) : LineupKey(t[j]) # LineupKey(t[i])}, 1)

\* df.drop_duplicates(subset=["season", "team", "player"], keep="last")
DropDuplicatesLast(t) ==
    RowsAt(t, {i \in 1..Len(t) :
                  \A j \in (i + 1)..Len(t) :
                      LineupKey(t[j]) # LineupKey(t[i])}, 1)

(***************************************************************************)
(* Box score realignment: drop_duplicates.py                               *)
(***************************************************************************)
\* df.rename(columns={'G': 'A', 'PLAYER': 'SH', 'SH': 'SOG', 'SOG': 'G'})
Realigned(t) ==
    Tuple([i \in 1..Len(t) |->
        [match_id |-> t[i].match_id, team |-> t[i].team,
         player |-> t[i].player,
         A |-> t[i].G, SH |-> t[i].PLAYER, SOG |-> t[i].SH, G |-> t[i].SOG]])

\* df.drop_duplicates(): of equal rows the first is kept
DropDuplicateRows(t) ==
    RowsAt(t, {i \in 1..Len(t) : \A j \in 1..(i - 1) : t[j] # t[i]}, 1)

(***************************************************************************)
(* Inputs of the cleaning scripts                                          *)
(***************************************************************************)
\* the year cells of data/team_lineups_all.csv
YearTexts ==
    {<<"F", "r">>,
     <<"f", "r", ".">>,
     <<"F", "R", ",">>,
     <<"s", "o">>,
     <<"S", "r", ";">>,
     <<"j", "r">>,
     <<"1">>,
     <<"2", "n", "d">>,
     <<"T", "H", "I", "R", "D">>,
     <<"4", "t", "h", ".">>,
     <<"f", "i", "f", "t", "h">>,
     <<"5">>,
     <<"x">>,
     <<"1", ".", "0">>,
     <<"s", ".", "r">>,
     <<" ", "J", "r", " ">>,
     <<>>, <<" ">>, Missing}

\* the position cells
PositionTexts ==
    {<<"C", "D", "M", "/", "C", "B">>,
     <<"G", "K">>,
     <<"G", "o", "a", "l", "k", "e", "e", "p", "e", "r">>,
     <<"c", "b">>,
     <<"M">>,
     <<"M", "F">>,
     <<"F">>,
     <<"S", "T", "/", "W">>,
     <<"F", "o", "r", "w", "a", "r", "d">>,
     <<"7">>,
     <<"/">>,
     <<"x">>,
     <<"D", ".">>,
     <<"G", "O", "A", "L">>,
     <<"C", "B">>,
     <<"D">>,
     <<"L", "B">>,
     <<"R", "B">>,
     <<"D", "E", "F">>,
     <<"F", "B">>,
     <<"W", "B">>,
     <<"B", "A", "C", "K">>,
     <<"C", "D">>,
     <<"C", "M">>,
     <<"C", "D", "M">>,
     <<"L", "M", "F">>,
     <<"R", "M", "F">>,
     <<"M", "I", "D">>,
     <<"C", "A", "M">>,
     <<"A", "M", "F">>,
     <<"S", "T">>,
     <<"C", "F">>,
     <<"F", "W">>,
     <<"W">>,
     <<>>, <<" ">>, Missing}

RawLineup(season, team, player, year, position, gp) ==
    [season |-> season, team |-> team, player |-> player, year |-> year,
     position |-> position, gp |-> gp]

\* tables of one row, with every year and position cell
CellTables ==
    {<<RawLineup(<<"2", "0", "2", "3">>, <<"u", "b", "c">>, <<"a", ".", " ", "l", "e", "e">>, y, p, NaN)>> :
        y \in YearTexts, p \in PositionTexts}

\* rows of a lineup table with repeated keys
MaxLineupRows == 3

\* the keys as written in the file, and the cells that tell the rows apart
KeyTexts ==
    {<<<<"2", "0", "2", "3">>, <<"U", "B", "C", " ">>, <<"J", ".", " ", "R", "e", "y">>>>,
     <<<<"2", "0", "2", "3">>, <<"u", "b", "c">>, <<"j", ".", " ", " ", "r", "é", "y">>>>,
     <<<<"2", "0", "2", "3">>, <<"u", "b", "c">>, <<"a", ".", " ", "l", "e", "e">>>>,
     <<<<"2", "0", "2", "4">>, <<"u", "b", "c">>, <<"a", ".", " ", "l", "e", "e">>>>}

RowCells ==
    {<<<<"F", "r">>, <<"G", "K">>, Num(3)>>,
     <<<<"s", "r", ".">>, <<"M", "F">>, Dash>>}

KeyedTables ==
    UNION {{[i \in 1..n |-> RawLineup(k[i][1], k[i][2], k[i][3],
                                      c[i][1], c[i][2], c[i][3])] :
               k \in [1..n -> KeyTexts], c \in [1..n -> RowCells]} :
           n \in 1..MaxLineupRows}

LineupInputs == CellTables \cup KeyedTables

\* rows of data/match_boxscores_detailed.csv
MaxRawBox == 3

RawBoxRows ==
    {[match_id |-> MatchId(2023, 1), team |-> t, player |-> "a. smith",
      PLAYER |-> l[1], SH |-> l[2], SOG |-> l[3], G |-> l[4]] :
        t \in FixtureTeams,
        l \in {<<Num(3), Num(2), Num(1), Num(0)>>,
               <<Num(2), Num(1), Dash, NaN>>}}

RawBoxTables == UNION {[1..n -> RawBoxRows] : n \in 1..MaxRawBox}

(***************************************************************************)
(* clean_lineups.py and drop_duplicates.py, step by step                   *)
(***************************************************************************)
InitClean ==
    /\ script \in {"clean_lineups", "drop_duplicates"}
    /\ pc = "load"
    /\ input \in (IF script = "clean_lineups" THEN LineupInputs
                  ELSE RawBoxTables)
    /\ notes = <<>>
    /\ box = <<>>
    /\ team_stats = <<>>
    /\ roster_final = <<>>
    /\ combined = <<>>
    /\ df = <<>>
    /\ merged = <<>>
    /\ out = <<>>
    /\ runs = <<>>

NormalizeKeys ==
    /\ script = "clean_lineups" /\ pc = "load"
    /\ df' = NormalizedKeys(input)
    /\ pc' = "keyed"
    /\ UNCHANGED <<runs, notes, aggvars, script, input, merged, out>>

NormalizeYears ==
    /\ script = "clean_lineups" /\ pc = "keyed"
    /\ df' = WithYears(df)
    /\ pc' = "years"
    /\ UNCHANGED <<runs, notes, aggvars, script, input, merged, out>>

NormalizePositions ==
    /\ script = "clean_lineups" /\ pc = "years"
    /\ df' = WithPositions(df)
    /\ pc' = "positions"
    /\ UNCHANGED <<runs, notes, aggvars, script, input, merged, out>>

ConvertNumeric ==
    /\ script = "clean_lineups" /\ pc = "positions"
    /\ df' = WithNumeric(df)
    /\ pc' = "numeric"
    /\ UNCHANGED <<runs, notes, aggvars, script, input, merged, out>>

DropDuplicateKeys ==
    /\ script = "clean_lineups" /\ pc = "numeric"
    /\ merged' = df
    /\ df' = DropDuplicatesLast(df)
    /\ pc' = "deduplicated"
    /\ UNCHANGED <<runs, notes, aggvars, script, input, out>>

SaveLineups ==
    /\ script = "clean_lineups" /\ pc = "deduplicated"
    /\ out' = Written(out, df)
    /\ runs' = Append(runs, Run(script, out'))
    /\ pc' = "done"
    /\ UNCHANGED <<notes, aggvars, script, input, df, merged>>

RealignBox ==
    /\ script = "drop_duplicates" /\ pc = "load"
    /\ df' = DropDuplicateRows(Realigned(input))
    /\ pc' = "deduplicated"
    /\ UNCHANGED <<runs, notes, aggvars, script, input, merged, out>>

SaveBox ==
    /\ script = "drop_duplicates" /\ pc = "deduplicated"
    /\ out' = Written(out, df)
    /\ runs' = Append(runs, Run(script, out'))
    /\ pc' = "done"
    /\ UNCHANGED <<notes, aggvars, script, input, df, merged>>

NextClean ==
    \/ NormalizeKeys
    \/ NormalizeYears
    \/ NormalizePositions
    \/ ConvertNumeric
    \/ DropDuplicateKeys
    \/ SaveLineups
    \/ RealignBox
    \/ SaveBox

SpecClean == InitClean /\ [][NextClean]_vars

(***************************************************************************)
(* Player-feature merge: merge_player_features.py                          *)
(***************************************************************************)
\* df["team"].str.lower().str.strip().str.replace(" ", "-", regex=False)
TeamSlug(s) ==
    LET t == Strip(Lower(s))
    IN  Tuple([k \in 1..Len(t) |-> IF t[k] = " " THEN "-" ELSE t[k]])

\* df["match_id"].str.lower().str.strip()
MatchSlug(s) == Strip(Lower(s))

\* the key columns of a table normalised for merging
MergeKeys(t) ==
    Tuple([i \in 1..Len(t) |->
        [team |-> TeamSlug(t[i].team), match_id |-> MatchSlug(t[i].match_id)]
        @@ t[i]])

\* groupby sum: NaN are skipped, the sum of nothing is 0
SeriesSum(s) == SumSeq(Valid(s))

\* groupby max: NaN are skipped, NaN when nothing is left
SeriesMax(s) ==
    LET v == Valid(s) IN
    IF v = <<>> THEN NaN
    ELSE CHOOSE x \in Range(v) : \A y \in Range(v) : ~FLess(x, y)

agg_columns ==
    <<"G_sum", "G_mean", "G_max", "SH_sum", "SH_mean", "SOG_sum", "SOG_mean",
      "A_sum", "A_mean", "player_count_match">>

\* players.groupby(["match_id", "team"]).agg(...): the row of one group,
\* ps the positions of its players
PlayerSummary(players, ps) ==
    [G_sum |-> SeriesSum(ColAt(players, "G", ps)),
     G_mean |-> SeriesMean(ColAt(players, "G", ps)),
     G_max |-> SeriesMax(ColAt(players, "G", ps)),
     SH_sum |-> SeriesSum(ColAt(players, "SH", ps)),
     SH_mean |-> SeriesMean(ColAt(players, "SH", ps)),
     SOG_sum |-> SeriesSum(ColAt(players, "SOG", ps)),
     SOG_mean |-> SeriesMean(ColAt(players, "SOG", ps)),
     A_sum |-> SeriesSum(ColAt(players, "A", ps)),
     A_mean |-> SeriesMean(ColAt(players, "A", ps)),
     player_count_match |-> Num(Len(ps))]

\* the summary columns of a row no group matches
NoSummary == [c \in Range(agg_columns) |-> NaN]

\* features.merge(agg, on=["match_id", "team"], how="left"): a group has one
\* row in agg, so every row of features is kept once, in its order
Enriched(features, players) ==
    Tuple([i \in 1..Len(features) |->
        LET ps == PosWhere(players,
                           LAMBDA r : /\ r.match_id = features[i].match_id
                                      /\ r.team = features[i].team, 1)
        IN  features[i]
            @@ (IF ps = <<>> THEN NoSummary ELSE PlayerSummary(players, ps))])

\* the keys as written in features_train.csv and in the box scores
MergeMatchTexts == {<<"M", "1">>, <<"m", "1", " ">>}

MergeTeamTexts == {<<"U", "B", "C">>, <<"t", "r", "u", " ", "w">>}

FeatureRows ==
    {[match_id |-> m, team |-> t, goals |-> Num(1)] :
        m \in MergeMatchTexts, t \in MergeTeamTexts}

PlayerRows_Merge ==
    {[match_id |-> <<"m", "1">>, team |-> t, player |-> "a. smith",
      G |-> g, SH |-> FAdd(g, Num(1)), SOG |-> g, A |-> Num(1)] :
        t \in {<<"u", "b", "c">>, <<"T", "R", "U", " ", "W">>},
        g \in {Num(0), Num(2), NaN}}

\* player lines of the box score given to the merge
MaxPlayers == 2

MergeInputs ==
    [features : FeatureRows \X FeatureRows,
     players : UNION {[1..n -> PlayerRows_Merge] : n \in 1..MaxPlayers}]

\* normalise the key columns of both tables
MergeNormalize ==
    /\ script = "merge_player_features" /\ pc = "load"
    /\ df' = [features |-> MergeKeys(input.features),
              players |-> MergeKeys(input.players)]
    /\ pc' = "keyed"
    /\ UNCHANGED <<runs, notes, aggvars, script, input, merged, out>>

\* 2./3. player summaries merged into the team features
MergeSummaries ==
    /\ script = "merge_player_features" /\ pc = "keyed"
    /\ merged' = Enriched(df.features, df.players)
    /\ pc' = "merged"
    /\ UNCHANGED <<runs, notes, aggvars, script, input, df, out>>

\* 4. save the enriched dataset
SaveEnriched ==
    /\ script = "merge_player_features" /\ pc = "merged"
    /\ out' = Written(out, merged)
    /\ runs' = Append(runs, Run(script, out'))
    /\ pc' = "done"
    /\ UNCHANGED <<notes, aggvars, script, input, df, merged>>

NextMerge == MergeNormalize \/ MergeSummaries \/ SaveEnriched

(***************************************************************************)
(* A stage run again on the same files                                     *)
(***************************************************************************)
\* the stages that are run again
Stages ==
    {"clean_lineups", "drop_duplicates", "build_features",
     "merge_player_features", "prematch_full", "add_opponent"}

\* the files of data/ each stage is given
StageInputs(s) ==
    CASE s = "clean_lineups" -> KeyedTables
      [] s = "drop_duplicates" -> RawBoxTables
      [] s = "build_features" ->
            [matches : MatchTables, box : BoxTables, lineups : {Lineups}]
      [] s = "merge_player_features" -> MergeInputs
      [] s = "prematch_full" -> CrossSeasonTables \cup PlainDateTables
      [] s = "add_opponent" -> OppInputs

\* runs of one stage on the same files
MaxRuns == 2

InitRerun ==
    /\ script \in Stages
    /\ pc = "load"
    /\ input \in StageInputs(script)
    /\ notes = <<>>
    /\ box = <<>>
    /\ team_stats = <<>>
    /\ roster_final = <<>>
    /\ combined = <<>>
    /\ df = <<>>
    /\ merged = <<>>
    /\ out = <<>>
    /\ runs = <<>>

\* the script is started again: a new process, the files of data/ as the
\* run before left them
Rerun ==
    /\ pc = "done"
    /\ Len(runs) < MaxRuns
    /\ pc' = "load"
    /\ df' = <<>>
    /\ merged' = <<>>
    /\ box' = <<>>
    /\ team_stats' = <<>>
    /\ roster_final' = <<>>
    /\ combined' = <<>>
    /\ UNCHANGED <<runs, notes, script, input, out>>

NextRerun ==
    \/ NextClean
    \/ NextAgg
    \/ NextMerge
    \/ NextForm
    \/ NextOpp
    \/ Rerun

SpecRerun == InitRerun /\ [][NextRerun]_vars

(***************************************************************************)
(* The scripts run one after another on the files of data/ and models/     *)
(***************************************************************************)
InitChain ==
    /\ script = "pipeline"
    /\ pc = "idle"
    /\ input = <<>>
    /\ notes = <<>>
    /\ box = <<>>
    /\ team_stats = <<>>
    /\ roster_final = <<>>
    /\ combined = <<>>
    /\ df = <<>>
    /\ merged = <<>>
    /\ out = <<>>
    /\ runs = <<>>

\* the files present after the runs so far
Present == SourceFiles \cup UNION {runs[i].writes : i \in 1..Len(runs)}

\* a script is run to its end: read_csv and joblib.load need their files to
\* be there, to_csv and joblib.dump leave the files of the script
RunScript(s) ==
    /\ \A i \in 1..Len(runs) : runs[i].script # s
    /\ Reads(s) \subseteq Present
    /\ runs' = Append(runs, Run(s, <<>>))
    /\ UNCHANGED <<notes, aggvars, script, pc, input, df, merged, out>>

NextChain == \E s \in Scripts : RunScript(s)

SpecChain == InitChain /\ [][NextChain]_vars

(***************************************************************************)
(* Helpers of the properties of the Form Engine                            *)
(***************************************************************************)
\* the table after the rolling step and the win rate, before any fill
PreImputation(t) == WinRateCols(RollingCols(SortValues(t), 1))

\* the table after both fills
Imputed(t) == FillGlobalCols(FillTeamCols(PreImputation(t), 1), 1)

\* the input with the statistics of its row j replaced by those of profile p
Perturb(t, j, p) ==
    [t EXCEPT ![j] = Profiles[p] @@ t[j]]

RowByIdx(t, i) == t[CHOOSE k \in 1..Len(t) : t[k].idx = i]

RollingFeatures(r) == [c \in Range(rolling_cols) |-> r[c]]

\* the rows j of the input whose change must not reach row i: same team and
\* season, date not before the date of i (i itself included)
NotBefore(t, i) ==
    {j \in 1..Len(t) : /\ SameSeasonTeam(t[j], t[i])
                       /\ ~StrLess(t[j].date, t[i].date)}

\* no change of the statistics of a row j changes the rolling features that
\* the pipeline stage F gives to a row i that j is not before
Unleaked(F(_), t) ==
    LET base == F(t) IN
    \A j \in 1..Len(t) : \A p \in 1..Len(Profiles) :
        LET changed == F(Perturb(t, j, p)) IN
        \A i \in 1..Len(t) :
            j \in NotBefore(t, i) =>
                RollingFeatures(RowByIdx(changed, i))
                    = RollingFeatures(RowByIdx(base, i))

(***************************************************************************)
(* C1  No leakage on the final Form Engine output: changing the statistics *)
(* of a row of the same team and season that is not earlier than row r     *)
(* (r included) leaves the six rolling features of r, after the rolling    *)
(* step and both fills, unchanged.                                         *)
(***************************************************************************)
C1_NoLeakage ==
    pc = "filled" => df = Imputed(input) /\ Unleaked(Imputed, input)

(***************************************************************************)
(* C2  Before imputation the rolling aggregates of a row with date T are   *)
(* computed only from rows of its (season, team) with date < T: changing a *)
(* row with date >= T, a row tied on T included, changes none of them.     *)
(***************************************************************************)
C2_StrictlyEarlier ==
    pc = "rated" => df = PreImputation(input) /\ Unleaked(PreImputation, input)

(***************************************************************************)
(* Means stated over sets of rows                                          *)
(***************************************************************************)
\* the sum of f[x] over the x in S
RECURSIVE SumOver(_, _)
SumOver(S, f) ==
    IF S = {} THEN Num(0)
    ELSE LET x == CHOOSE y \in S : TRUE
         IN  FAdd(f[x], SumOver(S \ {x}, f))

\* the mean of val over the members of S where it is defined
DefinedMean(S, term(_)) ==
    LET D == {x \in S : ~IsNaN(term(x))}
        f == [x \in D |-> term(x)]
    IN  IF D = {} THEN NaN ELSE FDiv(SumOver(D, f), Cardinality(D))

\* the mean of val over all members of S: undefined when S is empty
PlainMean(S, term(_)) ==
    LET f == [x \in S |-> term(x)]
    IN  IF S = {} THEN NaN ELSE FDiv(SumOver(S, f), Cardinality(S))

\* the positions of the (season, team) partition of the row at position i
Partition(t, i) == {q \in 1..Len(t) : SameSeasonTeam(t[q], t[i])}

\* the up to w rows of the partition of i that come directly before i
Preceding(t, i, w) ==
    {q \in Partition(t, i) :
        q < i /\ Cardinality({x \in Partition(t, i) : q < x /\ x < i}) < w}

(***************************************************************************)
(* C6  (as amended) Before imputation, <stat>_rolling3 of the i-th row of  *)
(* a (season, team) partition is the mean of the stat over those of the    *)
(* rows i-1, i-2, i-3 that exist and hold a value; it never includes row   *)
(* i; it is undefined exactly when no such row holds a value, as for the   *)
(* first row of the partition.                                             *)
(***************************************************************************)
C6_Rolling3 ==
    pc = "rolled" =>
        \A i \in 1..Len(df) : \A k \in 1..Len(stats_cols) :
            df[i][RollName(stats_cols[k])]
                = DefinedMean(Preceding(df, i, 3),
                              LAMBDA q : df[q][stats_cols[k]])

\* C6 as stated: the mean over the 1, 2 or 3 preceding rows that exist,
\* undefined only for the first row of the partition
C6_AsStated ==
    pc = "rolled" =>
        \A i \in 1..Len(df) : \A k \in 1..Len(stats_cols) :
            LET v == df[i][RollName(stats_cols[k])] IN
            /\ IsNaN(v) <=> Preceding(df, i, 3) = {}
            /\ ~IsNaN(v) =>
                  v = PlainMean(Preceding(df, i, 3),
                                LAMBDA q : df[q][stats_cols[k]])

\* a fourth match after shots 10, 14, 8 has shots_rolling3 = 32/3, and the
\* missing avg_player_year of the second match is left out of the mean
C6_Witness ==
    /\ pc = "rolled"
    /\ \E i \in 1..Len(df) :
          /\ Preceding(df, i, 3) = {i - 3, i - 2, i - 1}
          /\ df[i - 3].shots = Num(10)
          /\ df[i - 2].shots = Num(14)
          /\ df[i - 1].shots = Num(8)
          /\ df[i]["shots_rolling3"] = Frac(32, 3)
          /\ IsNaN(df[i - 2].avg_player_year)
          /\ df[i]["avg_player_year_rolling3"] = Frac(5, 2)

(***************************************************************************)
(* C7  Before imputation, win_rate_rolling5 of a row is the mean, over the *)
(* up to 5 rows directly before it in its (season, team) partition, of the *)
(* encoding win = 1, draw = 0.5, loss = 0 of their result; only a result   *)
(* that is a draw is encoded as 0.5.                                       *)
(***************************************************************************)
ResultCode(r) ==
    CASE r = "win" -> Num(1)
      [] r = "draw" -> Frac(1, 2)
      [] r = "loss" -> Num(0)
      [] OTHER -> NaN

C7_WinRate ==
    pc = "rated" =>
        \A i \in 1..Len(df) :
            /\ df[i].numeric_result = Frac(1, 2) => df[i].result = "draw"
            /\ df[i]["win_rate_rolling5"]
                  = DefinedMean(Preceding(df, i, 5),
                                LAMBDA q : ResultCode(df[q].result))

(***************************************************************************)
(* The two tiers of the fill, stated on the table before imputation        *)
(***************************************************************************)
\* the rows of the team of row i, in every season
TeamRows(t, i) == {q \in 1..Len(t) : t[q].team = t[i].team}

\* tier 1: a defined value stays; an undefined one becomes the mean of the
\* column over the rows of the team, all seasons
Tier1(t, i, col) ==
    IF ~IsNaN(t[i][col]) THEN t[i][col]
    ELSE DefinedMean(TeamRows(t, i), LAMBDA q : t[q][col])

\* the mean of the column over all teams and seasons, as tier 1 leaves it
GlobalMean(t, col) == DefinedMean(1..Len(t), LAMBDA q : Tier1(t, q, col))

\* tier 2: only a value still undefined after tier 1 becomes the global mean
Tier2(t, i, col) ==
    IF ~IsNaN(Tier1(t, i, col)) THEN Tier1(t, i, col) ELSE GlobalMean(t, col)

(***************************************************************************)
(* C8  Two-tier imputation, per rolling column: after the team fill every  *)
(* rolling value that was undefined is the team's own mean of the column   *)
(* over the whole table; after the global fill a value still undefined is  *)
(* the mean of the column over all rows; a value that was defined after    *)
(* the rolling step is the same after either tier.                         *)
(***************************************************************************)
C8_TwoTierFill ==
    LET pre == PreImputation(input) IN
    /\ pc = "team_filled" =>
          \A i \in 1..Len(df) : \A c \in Range(rolling_cols) :
              df[i][c] = Tier1(pre, i, c)
    /\ pc = "filled" =>
          \A i \in 1..Len(df) : \A c \in Range(rolling_cols) :
              /\ df[i][c] = Tier2(pre, i, c)
              /\ ~IsNaN(pre[i][c]) => df[i][c] = pre[i][c]

\* one table in which a season opener takes the team's mean from another
\* season, a team without any value in a column takes the global mean of
\* the column, and a defined value is kept
C8_Witness ==
    /\ pc = "filled"
    /\ LET pre == PreImputation(input) IN
       /\ \E i \in 1..Len(df) : \E c \in Range(rolling_cols) :
             /\ \A q \in Partition(pre, i) : IsNaN(pre[q][c])
             /\ \E q \in TeamRows(pre, i) : ~IsNaN(pre[q][c])
             /\ ~IsNaN(df[i][c])
             /\ df[i][c] # GlobalMean(pre, c)
       /\ \E i \in 1..Len(df) : \E c \in Range(rolling_cols) :
             /\ \A q \in TeamRows(pre, i) : IsNaN(pre[q][c])
             /\ ~IsNaN(df[i][c])
       /\ \E i \in 1..Len(df) : \E c \in Range(rolling_cols) :
             ~IsNaN(pre[i][c]) /\ df[i][c] = pre[i][c]

(***************************************************************************)
(* C9  The rolling features of the first-ever match of a team (every other *)
(* row of the team, in any season, is later) are the global means of their *)
(* columns, whether or not the team plays further matches.                 *)
(***************************************************************************)
\* row a is strictly before row b in (season, date)
Earlier(a, b) ==
    \/ a.season < b.season
    \/ a.season = b.season /\ StrLess(a.date, b.date)

FirstEver(t, i) == \A q \in TeamRows(t, i) \ {i} : Earlier(t[i], t[q])

C9_DebutGlobalMean ==
    pc = "filled" =>
        \A i \in 1..Len(df) :
            FirstEver(df, i) =>
                \A c \in Range(rolling_cols) :
                    df[i][c] = GlobalMean(PreImputation(input), c)

(***************************************************************************)
(* Helpers of the properties of the opponent pairing                       *)
(***************************************************************************)
\* the diff columns of the script that ran, each with its source column
DiffPairs ==
    IF script = "add_opponent" THEN Range(opp_diffs)
    ELSE {<<DiffName(stats_cols[k]), RollName(stats_cols[k])>> :
             k \in 1..Len(stats_cols)}
         \cup {<<"win_rate_diff", "win_rate_rolling5">>}

\* the rows of the paired table df that belong to match m
MatchRows(m) == {i \in 1..Len(df) : df[i].match_id = m}

\* the output rows of team t in match m
OutRows(m, t) == {k \in 1..Len(out) : out[k].match_id = m /\ out[k].team = t}

\* v is own - opp: missing when either is, else the number that added to opp
\* gives own
IsDiff(v, own, opp) ==
    IF IsNaN(own) \/ IsNaN(opp) THEN IsNaN(v)
    ELSE ~IsNaN(v) /\ FAdd(v, opp) = own

(***************************************************************************)
(* C3  Pairing symmetry: for a match_id whose input has exactly two rows,  *)
(* of different teams A and B, the output has A's row and B's row, and in  *)
(* every diff column A's value is own minus opponent and the negation of   *)
(* B's value.                                                              *)
(***************************************************************************)
C3_PairingSymmetry ==
    pc = "done" =>
        \A a \in 1..Len(df) : \A b \in 1..Len(df) :
            (/\ MatchRows(df[a].match_id) = {a, b}
             /\ df[a].team # df[b].team)
            => /\ Cardinality(OutRows(df[a].match_id, df[a].team)) = 1
               /\ Cardinality(OutRows(df[b].match_id, df[b].team)) = 1
               /\ \A ka \in OutRows(df[a].match_id, df[a].team) :
                  \A kb \in OutRows(df[b].match_id, df[b].team) :
                  \A pr \in DiffPairs :
                      /\ IsDiff(out[ka][pr[1]], df[a][pr[2]], df[b][pr[2]])
                      /\ out[ka][pr[1]] = FNeg(out[kb][pr[1]])

\* shots 12 against 9 give shot_diff 3 and -3
C3_Witness ==
    /\ pc = "done" /\ script = "add_opponent"
    /\ \E a \in 1..Len(df) : \E b \in 1..Len(df) :
          /\ MatchRows(df[a].match_id) = {a, b}
          /\ df[a].team # df[b].team
          /\ df[a].shots = Num(12) /\ df[b].shots = Num(9)
          /\ \E ka \in OutRows(df[a].match_id, df[a].team) :
                out[ka]["shot_diff"] = Num(3)
          /\ \E kb \in OutRows(df[b].match_id, df[b].team) :
                out[kb]["shot_diff"] = Num(-3)

(***************************************************************************)
(* C4  A match_id is in the output only if its input has exactly two team  *)
(* rows (a match with one row, or with three or more, contributes no row), *)
(* so the output has at most one row per (match_id, team).                 *)
(***************************************************************************)
C4_OnlyPairs ==
    pc = "done" =>
        /\ \A k \in 1..Len(out) :
              Cardinality(MatchRows(out[k].match_id)) = 2
        /\ \A k \in 1..Len(out) :
              Cardinality(OutRows(out[k].match_id, out[k].team)) = 1

(***************************************************************************)
(* C5  In the Match Aggregator output every match_id that appears has      *)
(* exactly two rows: one with is_home = 1 for the fixture's home_team and  *)
(* one with is_home = 0 for its away_team; a fixture of which only one     *)
(* participant has box score rows contributes no row.                      *)
(***************************************************************************)
\* the rows of the saved table that belong to match m
SavedRows(m) == {q \in 1..Len(out) : out[q].match_id = m}

C5_TwoRowsPerMatch ==
    (script = "build_features" /\ pc = "done") =>
        \A k \in 1..Len(out) :
            LET rows == SavedRows(out[k].match_id) IN
            /\ Cardinality(rows) = 2
            /\ \E f \in Range(input.matches) :
                  /\ f.match_id = out[k].match_id
                  /\ \E h \in rows :
                        out[h].is_home = 1 /\ out[h].team = f.home_team
                  /\ \E a \in rows :
                        out[a].is_home = 0 /\ out[a].team = f.away_team

(***************************************************************************)
(* C10  In every saved row, with own and opponent goals taken by is_home,  *)
(* result is win exactly when own > opponent, loss exactly when            *)
(* own < opponent and draw exactly when the two scores are equal; a        *)
(* fixture without score is never labelled draw; the two rows of a match   *)
(* carry win/loss or draw/draw.                                            *)
(***************************************************************************)
OwnGoals(r) == IF r.is_home = 1 THEN r.home_goals ELSE r.away_goals

OppGoals(r) == IF r.is_home = 1 THEN r.away_goals ELSE r.home_goals

Scored(r) == ~IsNaN(r.home_goals) /\ ~IsNaN(r.away_goals)

C10_ResultLabels ==
    (script = "build_features" /\ pc = "done") =>
        /\ \A k \in 1..Len(out) :
              LET r == out[k] IN
              /\ r.result = "win" <=> (Scored(r) /\ FLess(OppGoals(r), OwnGoals(r)))
              /\ r.result = "loss" <=> (Scored(r) /\ FLess(OwnGoals(r), OppGoals(r)))
              /\ r.result = "draw" <=> (Scored(r) /\ OwnGoals(r) = OppGoals(r))
        /\ \A k \in 1..Len(out) : \A q \in SavedRows(out[k].match_id) :
              out[q].is_home # out[k].is_home =>
                  <<out[k].result, out[q].result>> \in
                      {<<"win", "loss">>, <<"loss", "win">>, <<"draw", "draw">>}

(***************************************************************************)
(* Helpers of the properties of the Match Aggregator                       *)
(***************************************************************************)
\* the player rows of the box score that belong to the group of saved row r
PlayerRows(r) ==
    {i \in 1..Len(input.box) : AggKey(input.box[i]) = AggKey(r)}

\* the sum of the values f[x] over the finite set S, nothing missing
RECURSIVE Total(_, _)
Total(S, f) ==
    IF S = {} THEN Num(0)
    ELSE LET x == CHOOSE y \in S : TRUE IN FAdd(f[x], Total(S \ {x}, f))

(***************************************************************************)
(* C11  For every saved row whose (match_id, team) group has at least one  *)
(* player row, the position-group proportions sum to exactly 1 and none of *)
(* them is undefined.                                                      *)
(***************************************************************************)
C11_ProportionsSumToOne ==
    (script = "build_features" /\ pc = "done") =>
        \A k \in 1..Len(out) :
            PlayerRows(out[k]) # {} =>
                /\ \A g \in Range(position_groups) : ~IsNaN(out[k][g])
                /\ Total(Range(position_groups),
                         [g \in Range(position_groups) |-> out[k][g]]) = Num(1)

(***************************************************************************)
(* C12  For every (match_id, team) group of player rows the aggregated     *)
(* goals, shots, sog and assists are the sums of the players' values, a    *)
(* value that is text or missing counting as 0, and player_count is the    *)
(* number of distinct player rows of the group; the saved rows carry these *)
(* values.                                                                 *)
(***************************************************************************)
\* what a cell of the box score counts for
Counted(cell) ==
    IF "text" \in DOMAIN cell THEN Num(0)
    ELSE IF IsNaN(cell) THEN Num(0) ELSE cell

IsGroupAggregate(r) ==
    LET G == PlayerRows(r) IN
    /\ \A col \in Range(box_stats) :
          r[col] = Total(G, [i \in G |-> Counted(input.box[i][col])])
    /\ r.player_count = Num(Cardinality({input.box[i] : i \in G}))

C12_SumsAndCount ==
    (script = "build_features" /\ pc = "done") =>
        /\ \A i \in 1..Len(input.box) :
              Cardinality({k \in 1..Len(team_stats) :
                  AggKey(team_stats[k]) = AggKey(input.box[i])}) = 1
        /\ \A k \in 1..Len(team_stats) : IsGroupAggregate(team_stats[k])
        /\ \A k \in 1..Len(out) : IsGroupAggregate(out[k])

\* a saved row of two players, one of them with a goals cell that is text
C12_Witness ==
    /\ script = "build_features" /\ pc = "done"
    /\ \E k \in 1..Len(out) :
          /\ Cardinality(PlayerRows(out[k])) = 2
          /\ \E i \in PlayerRows(out[k]) : input.box[i].goals = Dash
          /\ out[k].goals = Num(1)
          /\ out[k].shots = Num(5)
          /\ out[k].player_count = Num(2)

(***************************************************************************)
(* C13  avg_player_year of a saved row is the mean of the academic-year    *)
(* ordinal over the player rows of its group, each player row counted      *)
(* once: a player with lineup records in several seasons counts with one   *)
(* of his years, once.  (Player rows without any lineup record are left    *)
(* out of the statement.)                                                  *)
(***************************************************************************)
\* the year ordinals of the lineup records of the player of box score row b
LineupYears(b) ==
    {input.lineups[j].year_num :
        j \in {q \in 1..Len(input.lineups) :
                  OnPlayerTeam(b, input.lineups[q])}}

\* the player rows of the group of r whose player has a lineup record
Recorded(r) == {i \in PlayerRows(r) : LineupYears(input.box[i]) # {}}

C13_AvgPlayerYear ==
    (script = "build_features" /\ pc = "done") =>
        \A k \in 1..Len(out) :
            LET G == Recorded(out[k])
                years == UNION {LineupYears(input.box[i]) : i \in G}
            IN  G # {} =>
                    \E y \in [G -> years] :
                        /\ \A i \in G : y[i] \in LineupYears(input.box[i])
                        /\ out[k].avg_player_year
                              = FDiv(Total(G, y), Cardinality(G))

(***************************************************************************)
(* C18  Every saved row belongs to a known fixture: its team is the        *)
(* home_team or the away_team of the fixture of its match_id and its       *)
(* fixture columns are those of the fixture, none defaulted; an            *)
(* aggregated row whose (match_id, team) is neither the home nor the away  *)
(* side of a known fixture has no saved row.                               *)
(***************************************************************************)
fixture_cols == {"season", "date", "home_team", "away_team", "home_goals",
                 "away_goals"}

\* the fixtures in which row r is the home or the away side
FixturesOf(r) ==
    {f \in Range(input.matches) :
        f.match_id = r.match_id /\ r.team \in {f.home_team, f.away_team}}

C18_UnmatchedDropped ==
    (script = "build_features" /\ pc = "done") =>
        /\ \A k \in 1..Len(out) :
              \E f \in FixturesOf(out[k]) :
                  \A c \in fixture_cols : out[k][c] = f[c]
        /\ \A k \in 1..Len(team_stats) :
              FixturesOf(team_stats[k]) = {} =>
                  \A q \in 1..Len(out) : AggKey(out[q]) # AggKey(team_stats[k])

\* an aggregated row of a team that is no side of the fixture of its
\* match_id, next to an aggregated row that is saved
C18_Witness ==
    /\ script = "build_features" /\ pc = "done"
    /\ \E k \in 1..Len(team_stats) :
          /\ FixturesOf(team_stats[k]) = {}
          /\ \E f \in Range(input.matches) : f.match_id = team_stats[k].match_id
    /\ out # <<>>

(***************************************************************************)
(* Helpers of the properties of the Schema Projector                       *)
(***************************************************************************)
InApp == script \in {"app_predictive", "app_analytic"}

\* the columns the model requires
Required == FeatOrder(input.model, df)

\* the vector made for the model: the row of tab 1, X_new of tab 2
Vector(v) == IF script = "app_analytic" THEN v.X_new ELSE v

\* the required columns that the row does not have
Absent == {c \in Range(Required) : c \notin DOMAIN df}

(***************************************************************************)
(* C19  The projection completes whatever columns the row has: the vector  *)
(* has the required columns in the model's order, with 0.0 in every        *)
(* required column that is absent from the row and the row's value in      *)
(* every column that is present; it is the vector handed to the model.     *)
(***************************************************************************)
IsProjection(v) ==
    /\ Len(v) = Len(Required)
    /\ \A k \in 1..Len(Required) :
          /\ v[k].col = Required[k]
          /\ v[k].value = IF Required[k] \in DOMAIN df THEN df[Required[k]]
                          ELSE Num(0)

C20_ZeroFillWarned ==
    (InApp /\ pc = "done" /\ input.has_form) =>
        \A c \in Absent :
            \E n \in 1..Len(notes) : notes[n].level = "warning"

(***************************************************************************)
(* Properties of the Lineup Normaliser                                     *)
(***************************************************************************)
InClean == script = "clean_lineups"

\* the states of clean_lineups.py in which the years are resolved
YearsDone ==
    InClean /\ pc \in {"years", "positions", "numeric", "deduplicated", "done"}

\* the states of clean_lineups.py in which the positions are classified
PositionsDone ==
    InClean /\ pc \in {"positions", "numeric", "deduplicated", "done"}

year_classes == <<"1st", "2nd", "3rd", "4th", "5th">>

\* C15: whatever the cell (a text, the empty text, blanks only, a missing
\* value), the position group is one of GK, DEF, MID, FOR, UNK, and the year
\* is a pair (ordinal, label) with ordinal in 0..5 and label in 1st..5th or
\* UNK, the ordinal being k exactly when the label is the k-th class and 0
\* exactly when the label is UNK.
C15_UnkTotality ==
    /\ YearsDone =>
          \A i \in 1..Len(df) :
              /\ df[i].year_num \in 0..5
              /\ df[i].year_std \in Range(year_classes) \cup {"UNK"}
              /\ \A k \in 1..5 :
                     df[i].year_num = k <=> df[i].year_std = year_classes[k]
              /\ df[i].year_num = 0 <=> df[i].year_std = "UNK"
    /\ PositionsDone =>
          \A i \in 1..Len(df) :
              df[i].position_group \in {"GK", "DEF", "MID", "FOR", "UNK"}

\* cells with no class and no group (missing, empty, blank, unmatched text)
\* have been through both normalisers, next to cells that resolve
C15_Witness ==
    /\ PositionsDone
    /\ \E i \in 1..Len(df) :
           /\ df[i].year \in {Missing, <<>>, <<" ">>, <<"x">>}
           /\ df[i].position \in {Missing, <<>>, <<" ">>, <<"7">>}
           /\ df[i].year_num = 0 /\ df[i].year_std = "UNK"
           /\ df[i].position_group = "UNK"

Punctuation == {".", ",", ";", ":", "!"}

RECURSIVE RStripPunctuation(_)
RStripPunctuation(s) ==
    IF s # <<>> /\ s[Len(s)] \in Punctuation
    THEN RStripPunctuation(SubSeq(s, 1, Len(s) - 1)) ELSE s

\* the cell with the surrounding blanks and the trailing punctuation
\* stripped, in lower case
CleanedYear(y) ==
    IF IsNa(y) THEN <<>> ELSE Lower(RStripPunctuation(Strip(y)))

\* C16: the year is resolved on the cell stripped of its trailing
\* punctuation (period, comma, semicolon, ...) and lowercased: a synonym of
\* the table gives its class whatever the case and the trailing mark, and a
\* text that matches no synonym after this cleaning gives (0, UNK).
C16_YearIgnoresPunctuationAndCase ==
    YearsDone =>
        \A i \in 1..Len(df) :
            LET w == CleanedYear(df[i].year) IN
            IF w \in DOMAIN mapping_text
            THEN /\ df[i].year_std = mapping_text[w]
                 /\ df[i].year_num = mapping_num[mapping_text[w]]
            ELSE df[i].year_std = "UNK" /\ df[i].year_num = 0

\* the key of an input row after canonicalisation
CanonicalKey(r) ==
    <<normalize_text(r.season), normalize_text(r.team),
      normalize_text(r.player)>>

\* the positions of the last input row of every key
LastOfKey ==
    {i \in 1..Len(input) :
        \A j \in (i + 1)..Len(input) :
            CanonicalKey(input[j]) # CanonicalKey(input[i])}

\* the k-th position of S in increasing order
Nth(S, k) == CHOOSE i \in S : Cardinality({j \in S : j < i}) = k - 1

\* C17: after the deduplication of clean_lineups the table has one row per
\* canonical (season, team, player) key of the input, that row is the last
\* input row with the key, and the kept rows are in input order.
C17_LastRowPerKey ==
    (InClean /\ pc \in {"deduplicated", "done"}) =>
        /\ Len(df) = Cardinality(LastOfKey)
        /\ \A k \in 1..Len(df) :
               LET r == input[Nth(LastOfKey, k)] IN
               /\ LineupKey(df[k]) = CanonicalKey(r)
               /\ df[k].year = r.year
               /\ df[k].position = r.position
        /\ \A k, l \in 1..Len(df) :
               LineupKey(df[k]) = LineupKey(df[l]) => k = l

\* two rows whose keys are written differently and are equal once
\* canonical, with different cells, around a row of another key: the later
\* of the two is kept, after the other key
C17_Witness ==
    /\ InClean /\ pc = "done"
    /\ Len(input) = 3 /\ Len(out) = 2
    /\ input[1].player # input[3].player
    /\ input[1].team # input[3].team
    /\ CanonicalKey(input[1]) = CanonicalKey(input[3])
    /\ CanonicalKey(input[2]) # CanonicalKey(input[1])
    /\ input[1].year # input[3].year
    /\ out[2].year = input[3].year
    /\ LineupKey(out[1]) = CanonicalKey(input[2])

(***************************************************************************)
(* C21  The vector handed to the model has exactly the columns the model   *)
(* was fitted on, in that order: position i is the i-th column of the      *)
(* model's feature_cols, whatever the columns of the row and their order.  *)
(***************************************************************************)
C21_ModelOrder ==
    (InApp /\ pc = "projected") =>
        LET v == Vector(merged)
            expected == input.model.feature_cols
        IN  /\ Len(v) = Len(expected)
            /\ \A k \in 1..Len(expected) : v[k].col = expected[k]

(***************************************************************************)
(* C29  In the swap simulation X_old has the mean of the original lineup   *)
(* in the model feature G_mean and X_new the mean of the lineup with the   *)
(* swapped player; the two vectors agree on every other feature.           *)
(***************************************************************************)
C29_BeforeAfterMeans ==
    (script = "app_analytic" /\ pc = "projected") =>
        \A k \in 1..Len(Required) :
            IF Required[k] = "G_mean"
            THEN /\ merged.X_old[k].value = orig_means.G
                 /\ merged.X_new[k].value = new_means.G_mean
            ELSE merged.X_old[k].value = merged.X_new[k].value

(***************************************************************************)
(* C22  When a statistic column (goals, shots, sog, assists) is absent     *)
(* from the box score, the Match Aggregator stops: no default is put in    *)
(* the place of the column and no table is written.                        *)
(***************************************************************************)
AbsentStats == {c \in Range(box_stats) : c \notin BoxColumns(input.box)}

C22_AbsentColumnFatal ==
    (script = "build_features" /\ AbsentStats # {}) =>
        /\ \A c \in AbsentStats : \A i \in 1..Len(box) : c \notin DOMAIN box[i]
        /\ pc # "done"
        /\ out = <<>>
    /\ runs = <<>>

(***************************************************************************)
(* C28  A keyword of one of the four keyword lists that is the whole       *)
(* position text is given the group of its own list: GK for the goalkeeper *)
(* keywords, DEF for the defender keywords, MID for the midfielder         *)
(* keywords, FOR for the forward keywords.                                 *)
(***************************************************************************)
OwnGroup(p) ==
    IF p \in Range(gk_keys) THEN "GK"
    ELSE IF p \in Range(def_keys) THEN "DEF"
    ELSE IF p \in Range(mid_keys) THEN "MID"
    ELSE "FOR"

C28_KeywordsOwnGroup ==
    PositionsDone =>
        \A i \in 1..Len(df) :
            df[i].position \in Range(gk_keys) \cup Range(def_keys)
                               \cup Range(mid_keys) \cup Range(for_keys)
                => df[i].position_group = OwnGroup(df[i].position)

(***************************************************************************)
(* Properties of the rows and the fill of the Form Engine                  *)
(***************************************************************************)
InForm == script = "prematch_full"

\* C26: the table written by the pre-match feature builder has exactly one
\* row for every row of features_enriched: none dropped, none duplicated.
C26_KeepsAllRows ==
    (InForm /\ pc = "done") =>
        /\ Len(out) = Len(input)
        /\ \A i \in 1..Len(input) :
               Cardinality({k \in 1..Len(out) : out[k].idx = input[i].idx}) = 1

\* C27: the fill step (team means, then global means) changes the rolling
\* columns only: every other column of every row has the same value, the
\* same missing value included, after the step as before it.
C27_FillFrame ==
    [][(InForm /\ pc \in {"rated", "team_filled"}) =>
          /\ Len(df') = Len(df)
          /\ \A i \in 1..Len(df) :
                 \A c \in DOMAIN df[i] \ Range(rolling_cols) :
                     df'[i][c] = df[i][c]]_vars

\* C30: after the two fills every *_rolling3 column and win_rate_rolling5
\* of every output row holds a defined number, also when every team has a
\* single match per season.
C30_NoUndefinedRolling ==
    (InForm /\ pc = "done") =>
        \A i \in 1..Len(out) :
            \A c \in Range(rolling_cols) : ~IsNaN(out[i][c])

(***************************************************************************)
(* C24  Within a (season, team) partition the rows are in ascending order  *)
(* of their calendar date, and rows of equal date are in the order of the  *)
(* input file.                                                             *)
(***************************************************************************)
\* the day of the month that a date text denotes
DayOf(d) == IF Len(d) = 1 THEN d[1] ELSE 10 * d[1] + d[2]

C24_ChronologicalOrder ==
    (InForm /\ pc # "load") =>
        \A i, j \in 1..Len(df) :
            SameSeasonTeam(df[i], df[j]) =>
                /\ DayOf(df[i].date) < DayOf(df[j].date) => i < j
                /\ (df[i].date = df[j].date /\ df[i].idx < df[j].idx) => i < j

Stage(s) ==
    CASE s \in {"clean_lineups", "drop_duplicates"} -> 1
      [] s \in {"build_features", "merge_player_features"} -> 2
      [] s \in {"prematch", "prematch_full"} -> 3
      [] s = "add_opponent" -> 4
      [] s \in {"train_model", "train_model_predictive", "app"} -> 5

\* the run that wrote file f before run i
WriterOf(f, i) == CHOOSE j \in 1..(i - 1) : f \in runs[j].writes

\* the files of the pipeline that run i reads
PipelineReads(i) == runs[i].reads \ SourceFiles

====
